---- MODULE Spec2Model ----
(***************************************************************************)
(* A model of the bait-chat backend: the keyword Action Router and the     *)
(* plan safety check (backend/agent.py), the plan explainer                *)
(* (backend/explain.py), the QServer gateway (backend/qserver.py) and the  *)
(* local inference clients and service (backend/local_llm.py).             *)
(*                                                                         *)
(* Texts that are matched by substring are sequences of one-character      *)
(* strings; texts that are only assembled, compared and measured are       *)
(* sequences of segments (TLA+ strings).  A confidence is kept in          *)
(* hundredths (0.9 is 90).  A raised Python exception is a value Raised(e).*)
(***************************************************************************)
EXTENDS Integers, Sequences, FiniteSets, TLC

VARIABLES
    query,          \* NLPQuery.query of the last routed query (characters)
    frags,          \* ghost: the fragments the query was assembled from
    response,       \* AgentResponse returned for it, or NoResponse
    plan,           \* the plan dictionary last handed to validate_plan_safety
    safe,           \* its result <<b>>, or <<>> before the call
    llm_provider,   \* settings.LLM_PROVIDER
    ex_stage,       \* explain call: "idle", "source", "request" or "done"
    ex_source,      \* plan_source handed to PlanExplainer.explain (tokens)
    ex_context,     \* context handed to it
    ex_chat,        \* what local_llm_service.generate_chat did in the call
    ex_text,        \* what local_llm_service.generate_text did in the call
    ex_result,      \* what explain returned (or raised)
    srv_status,     \* scheduler: how GET /status answers
    srv_api,        \* scheduler: how every other endpoint answers
    srv_allowed,    \* scheduler: the name -> info mapping of its registry
    qs_connected,   \* QServerClient._connected
    qs_session,     \* QServerClient.session: "none", "open" or "closed"
    qs_call,        \* the last Gateway operation called, with its argument
    qs_result,      \* what it returned (or raised)
    qs_lastConnect, \* ghost: how the most recent connect() ended
    qs_sawDisconnect, \* ghost: disconnect() closed the session since then
    inf_health,     \* inference server: how its health endpoint answers
    inf_post,       \* inference server: how its generation endpoints answer
    inf_reply,      \* inference server: the reply it generates on a 200
    svc_client,     \* LocalLLMService.client: "none" or the client's class
    llm_connected,  \* that client's _connected
    llm_session,    \* that client's session: "none", "open" or "closed"
    llm_call,       \* the last inference operation called
    llm_connect,    \* ghost: what its implicit connect() returned, if it ran
    llm_result,     \* what the operation returned (or raised)
    ag_initialized, \* BaitChatAgent._initialized
    ag_query,       \* NLPQuery.query handed to process_query (characters)
    ag_reply,       \* the text the inference service would answer with
    ag_chat,        \* what local_llm_service.generate_chat did in the call
    ag_result,      \* what process_query returned (or raised)
    ep_call,        \* the HTTP request being answered: endpoint and input
    ep_response,    \* the answer: endpoint, status and body
    ep_gateway,     \* ghost: the Gateway operations the handler called
    db_connected,   \* DatabrokerClient._connected
    rag_initialized, \* RAGEngine._initialized
    rag_store,      \* RAGEngine.vector_store: its documents, or Absent (None)
    kb_files,       \* the documents of the knowledge base on disk
    rag_call,       \* the last RAGEngine operation called, with its input
    rag_result,     \* what it returned
    sch_plans,      \* scheduler: the plan descriptors it delivers, in order
    pl_out,         \* what was computed from them: operation and values
    sch_devices,    \* scheduler: the devices_allowed it delivers, in order
    mcp_out,        \* the instrument server's answer: operation and value
    db_call,        \* the last DatabrokerClient operation called, with its input
    db_result,      \* what it returned
    cc_kind,        \* the class of the client the tasks share
    cc_connected,   \* its _connected flag
    cc_session,     \* its session attribute: 0 for None, or a session's number
    cc_sessions,    \* every ClientSession created so far: "open" or "closed"
    cc_tasks,       \* each task: its operation, where it is suspended, its result
    pq_pc,          \* where the running call of process_query stands
    pq_tools        \* ghost: the tools that call has executed, in order

routerVars == <<query, frags, response>>
safetyVars == <<plan, safe>>
explainVars == <<llm_provider, ex_stage, ex_source, ex_context, ex_chat, ex_text, ex_result>>
serverVars == <<srv_status, srv_api, srv_allowed>>
clientVars == <<qs_connected, qs_session, qs_call, qs_result, qs_lastConnect, qs_sawDisconnect>>
gatewayVars == <<serverVars, clientVars>>
inferenceVars == <<inf_health, inf_post, inf_reply>>
llmClientVars == <<svc_client, llm_connected, llm_session, llm_call, llm_connect, llm_result>>
llmVars == <<inferenceVars, llmClientVars>>
coreVars == <<routerVars, safetyVars, explainVars, gatewayVars, llmVars>>
agentVars == <<ag_initialized, ag_query, ag_reply, ag_chat, ag_result>>
apiVars == <<ep_call, ep_response, ep_gateway, db_connected>>
ragVars == <<rag_initialized, rag_store, kb_files>>
ragCallVars == <<rag_call, rag_result>>
pipeVars == <<sch_plans, pl_out>>
mcpVars == <<sch_devices, mcp_out>>
dbVars == <<db_call, db_result>>
raceVars == <<cc_kind, cc_connected, cc_session, cc_sessions, cc_tasks>>
stepVars == <<pq_pc, pq_tools>>
sideVars == <<dbVars, raceVars, stepVars>>
toolVars == <<ragCallVars, pipeVars, mcpVars>>
appVars == <<agentVars, apiVars, ragVars, toolVars, sideVars>>
notAgentVars == <<coreVars, apiVars, ragVars, toolVars, sideVars>>
outsideApiVars ==
    <<routerVars, safetyVars, explainVars, llmVars, agentVars, serverVars,
      qs_call, qs_result, toolVars, sideVars>>
notRagVars == <<coreVars, agentVars, apiVars, pipeVars, mcpVars, sideVars>>
notPipeVars == <<coreVars, agentVars, apiVars, ragVars, ragCallVars, mcpVars, sideVars>>
notMcpVars == <<coreVars, agentVars, apiVars, ragVars, ragCallVars, pipeVars, sideVars>>
\* everything but the DatabrokerClient's flag and calls (db_connected is in apiVars)
notDbVars == <<coreVars, agentVars, ragVars, toolVars, raceVars, stepVars>>
notRaceVars == <<coreVars, agentVars, apiVars, ragVars, toolVars, dbVars, stepVars>>
notStepVars == <<coreVars, apiVars, ragVars, toolVars, dbVars, raceVars>>
vars == <<coreVars, appVars>>

None == "None"
Absent == [some |-> FALSE]
Some(v) == [some |-> TRUE, val |-> v]

----------------------------------------------------------------------------
(* Bounds of the model.                                                    *)

\* a query is the concatenation of at most MaxFrags fragments
MaxFrags == 2
\* motor positions range over -MaxPos .. MaxPos
MaxPos == 11
\* point counts range over the duration limit -NumSpan .. +NumSpan (and 0, 100, 2000)
NumSpan == 2
\* a plan function has at most MaxParams parameters
MaxParams == 2
\* the scheduler's registry holds at most MaxItems entries
MaxItems == 2
\* a generated reply has at most MaxSegments segments
MaxSegments == 3

----------------------------------------------------------------------------
(* Character texts: str.lower and the substring test `kw in text`.         *)

UpperAlpha ==
    <<"A","B","C","D","E","F","G","H","I","J","K","L","M",
      "N","O","P","Q","R","S","T","U","V","W","X","Y","Z">>
LowerAlpha ==
    <<"a","b","c","d","e","f","g","h","i","j","k","l","m",
      "n","o","p","q","r","s","t","u","v","w","x","y","z">>

LowerChar(c) ==
    IF \E i \in 1..Len(UpperAlpha) : UpperAlpha[i] = c
    THEN LowerAlpha[CHOOSE i \in 1..Len(UpperAlpha) : UpperAlpha[i] = c]
    ELSE c

\* str.lower()
Lower(s) == [i \in 1..Len(s) |-> LowerChar(s[i])]

\* `kw in s` for strings: kw occurs as a contiguous substring of s
Contains(s, kw) ==
    \E i \in 0..(Len(s) - Len(kw)) :
        \A j \in 1..Len(kw) : s[i + j] = kw[j]

\* any(word in s for word in words)
ContainsAny(s, words) == \E w \in words : Contains(s, w)

RECURSIVE Concat(_)
Concat(ss) == IF ss = <<>> THEN <<>> ELSE Head(ss) \o Concat(Tail(ss))

----------------------------------------------------------------------------
(* Keyword tables of the Action Router.                                    *)

kw_motor     == <<"m","o","t","o","r">>
kw_device    == <<"d","e","v","i","c","e">>
kw_detector  == <<"d","e","t","e","c","t","o","r">>
kw_hardware  == <<"h","a","r","d","w","a","r","e">>
kw_plan      == <<"p","l","a","n">>
kw_scan      == <<"s","c","a","n">>
kw_available == <<"a","v","a","i","l","a","b","l","e">>
kw_last      == <<"l","a","s","t">>
kw_explain   == <<"e","x","p","l","a","i","n">>
kw_what_does == <<"w","h","a","t"," ","d","o","e","s">>
kw_run       == <<"r","u","n">>
kw_perform   == <<"p","e","r","f","o","r","m">>
kw_execute   == <<"e","x","e","c","u","t","e">>
kw_scan_from == <<"s","c","a","n"," ","f","r","o","m">>

DeviceWords  == {kw_motor, kw_device, kw_detector, kw_hardware}
PlanWords    == {kw_plan, kw_scan, kw_available}
ExplainWords == {kw_explain, kw_what_does}
ScanActWords == {kw_run, kw_perform, kw_execute, kw_scan_from}

----------------------------------------------------------------------------
(* Tool implementations of the agent (canned texts, as lines).             *)

ListDevicesText ==
    <<"Motors: motor_x, motor_y, motor_z, motor_theta",
      "Detectors: pilatus, i0, diode, scintillator",
      "Temperature: lakeshore, cryostream",
      "Sample environment: sample_stage, goniometer">>

ListPlansText ==
    <<"scan: Continuous scan over a motor range",
      "count: Take repeated measurements at current position",
      "list_scan: Scan through a list of positions",
      "grid_scan: 2D grid scan with two motors",
      "fly_scan: High-speed continuous acquisition">>

LastScanText ==
    <<"Scan ID: a1b2c3d4", "Plan: scan",
      "Motor: motor_x from 0.0 to 5.0 mm (51 points)",
      "Detector: pilatus", "Duration: 125.4 seconds",
      "Status: completed", "Max counts: 15234">>

AgentExplainPlan(plan_name) ==
    CASE plan_name = "scan" ->
           <<"The 'scan' plan moves a motor continuously from start to stop position while collecting detector data at regular intervals.">>
      [] plan_name = "count" ->
           <<"The 'count' plan takes repeated measurements at the current position to improve statistics.">>
      [] plan_name = "list_scan" ->
           <<"The 'list_scan' plan moves to specific positions from a list and collects data at each point.">>
      [] OTHER -> <<"This plan performs a custom measurement sequence.">>

\* _generate_plan: a fixed plan that only records the originating query
GeneratePlan(q) ==
    [name |-> "scan",
     args |-> <<<<"pilatus">>, "motor_x", 0, 5, 51>>,
     metadata |-> [generated_from |-> q]]

DefaultText ==
    <<"I can help you with:", "- Listing available devices and plans",
      "- Checking the last scan", "- Explaining scan plans",
      "- Creating new scans">>

AgentResponse(text, action, conf, generated) ==
    [response |-> text, action_taken |-> action,
     confidence |-> conf, plan_generated |-> generated]

NoResponse == AgentResponse(<<>>, "unset", 0, Absent)

----------------------------------------------------------------------------
(* BaitChatAgent._simulate_agent_response: the keyword router.             *)

\* a plausible slip: the plan check placed before the device check
SimulateAgentResponse_PlanFirst(q) ==
    LET query_lower == Lower(q) IN
    IF ContainsAny(query_lower, PlanWords)
    THEN AgentResponse(<<"Available scan plans:">> \o ListPlansText, "list_plans", 90, Absent)
    ELSE IF ContainsAny(query_lower, DeviceWords)
    THEN AgentResponse(<<"Available devices:">> \o ListDevicesText, "list_devices", 90, Absent)
    ELSE IF Contains(query_lower, kw_last) /\ Contains(query_lower, kw_scan)
    THEN AgentResponse(<<"Last scan information:">> \o LastScanText, "get_last_scan", 95, Absent)
    ELSE IF Contains(query_lower, kw_explain) \/ Contains(query_lower, kw_what_does)
    THEN AgentResponse(AgentExplainPlan("scan"), "explain_plan", 85, Absent)
    ELSE IF ContainsAny(query_lower, ScanActWords)
    THEN AgentResponse(<<"Generated scan plan. Ready to submit to queue.">>,
                       "generate_plan", 75, Some(GeneratePlan(q)))
    ELSE AgentResponse(DefaultText, None, 50, Absent)

\* a plausible slip: the last-scan check moved ahead of the plan check
SimulateAgentResponse_LastScanEarlier(q) ==
    LET query_lower == Lower(q) IN
    IF ContainsAny(query_lower, DeviceWords)
    THEN AgentResponse(<<"Available devices:">> \o ListDevicesText, "list_devices", 90, Absent)
    ELSE IF Contains(query_lower, kw_last) /\ Contains(query_lower, kw_scan)
    THEN AgentResponse(<<"Last scan information:">> \o LastScanText, "get_last_scan", 95, Absent)
    ELSE IF ContainsAny(query_lower, PlanWords)
    THEN AgentResponse(<<"Available scan plans:">> \o ListPlansText, "list_plans", 90, Absent)
    ELSE IF Contains(query_lower, kw_explain) \/ Contains(query_lower, kw_what_does)
    THEN AgentResponse(AgentExplainPlan("scan"), "explain_plan", 85, Absent)
    ELSE IF ContainsAny(query_lower, ScanActWords)
    THEN AgentResponse(<<"Generated scan plan. Ready to submit to queue.">>,
                       "generate_plan", 75, Some(GeneratePlan(q)))
    ELSE AgentResponse(DefaultText, None, 50, Absent)

SimulateAgentResponse(q) ==
    LET query_lower == Lower(q) IN
    IF ContainsAny(query_lower, DeviceWords)
    THEN AgentResponse(<<"Available devices:">> \o ListDevicesText, "list_devices", 90, Absent)
    ELSE IF ContainsAny(query_lower, PlanWords)
    THEN AgentResponse(<<"Available scan plans:">> \o ListPlansText, "list_plans", 90, Absent)
    ELSE IF Contains(query_lower, kw_last) /\ Contains(query_lower, kw_scan)
    THEN AgentResponse(<<"Last scan information:">> \o LastScanText, "get_last_scan", 95, Absent)
    ELSE IF Contains(query_lower, kw_explain) \/ Contains(query_lower, kw_what_does)
    THEN AgentResponse(AgentExplainPlan("scan"), "explain_plan", 85, Absent)
    ELSE IF ContainsAny(query_lower, ScanActWords)
    THEN AgentResponse(<<"Generated scan plan. Ready to submit to queue.">>,
                       "generate_plan", 75, Some(GeneratePlan(q)))
    ELSE AgentResponse(DefaultText, None, 50, Absent)

----------------------------------------------------------------------------
(* Queries: concatenations of keyword fragments in mixed case, keyword     *)
(* halves that only form a keyword across a fragment boundary, and filler. *)

QueryFragments ==
    { kw_motor, kw_device, kw_detector, kw_hardware,
      kw_plan, kw_scan, kw_available,
      kw_last, kw_explain, kw_what_does,
      kw_run, kw_perform, kw_execute, kw_scan_from,
      <<"M","O","T","O","R">>, <<"S","c","a","N">>, <<"H","a","r","d","W","a","r","e">>,
      <<"P","l","a","n">>, <<"W","h","a","t"," ","D","o","e","s">>,
      <<"m","o">>, <<"t","o","r">>, <<"s","c">>, <<"a","n">>,
      <<" ">>, <<"s","h","o","w"," ","m","e"," ">> }

----------------------------------------------------------------------------
(* BaitChatAgent.validate_plan_safety.                                     *)

Limits == [motor_x |-> <<-10, 10>>, motor_y |-> <<-5, 5>>]
SecondsPerPoint == 2
MaxDuration == 3600

Has(d, k) == k \in DOMAIN d

\* a plausible slip: the duration limit compared against the point count alone
ValidatePlanSafety_NoDuration(p) ==
    IF /\ Has(p, "motor") /\ p["motor"] \in DOMAIN Limits
       /\ Has(p, "start") /\ Has(p, "stop")
       /\ (p["start"] < Limits[p["motor"]][1] \/ p["stop"] > Limits[p["motor"]][2])
    THEN FALSE
    ELSE IF Has(p, "num") /\ p["num"] > MaxDuration
    THEN FALSE
    ELSE TRUE

ValidatePlanSafety(p) ==
    IF /\ Has(p, "motor") /\ p["motor"] \in DOMAIN Limits
       /\ Has(p, "start") /\ Has(p, "stop")
       /\ (p["start"] < Limits[p["motor"]][1] \/ p["stop"] > Limits[p["motor"]][2])
    THEN FALSE
    ELSE IF Has(p, "num") /\ p["num"] * SecondsPerPoint > MaxDuration
    THEN FALSE
    ELSE TRUE

Motors == {"motor_x", "motor_y", "motor_z"}
Positions == (-MaxPos)..MaxPos
NumValues == {0, 100, 2000} \cup ((1800 - NumSpan)..(1800 + NumSpan))

PlanKeys == {"motor", "start", "stop", "num"}

\* the values a plan dictionary may carry under key k
PlanValue(k) ==
    CASE k = "motor" -> Motors
      [] k = "num" -> NumValues
      [] OTHER -> Positions

NoPlan == <<>>

----------------------------------------------------------------------------
(* Results of steps that may raise, and segment texts.                     *)

Ok(v) == [raised |-> FALSE, val |-> v]
Raised(e) == [raised |-> TRUE, val |-> <<e>>]
NotCalled == [raised |-> FALSE, val |-> <<>>, called |-> FALSE]

RECURSIVE TextLen(_)
\* len(text): the characters of all segments
TextLen(t) == IF t = <<>> THEN 0 ELSE Len(Head(t)) + TextLen(Tail(t))

\* sep.join(items), every item a text
RECURSIVE Join(_, _)
Join(items, sep) ==
    IF items = <<>> THEN <<>>
    ELSE IF Len(items) = 1 THEN Head(items)
    ELSE Head(items) \o <<sep>> \o Join(Tail(items), sep)

IsLetter(c) ==
    \E i \in 1..Len(LowerAlpha) : c = LowerAlpha[i] \/ c = UpperAlpha[i]

UpperChar(c) ==
    IF \E i \in 1..Len(LowerAlpha) : LowerAlpha[i] = c
    THEN UpperAlpha[CHOOSE i \in 1..Len(LowerAlpha) : LowerAlpha[i] = c]
    ELSE c

\* name.replace('_', ' ').title()
TitleName(name) ==
    LET spaced == [i \in 1..Len(name) |-> IF name[i] = "_" THEN " " ELSE name[i]] IN
    [i \in 1..Len(spaced) |->
        IF i = 1 \/ ~IsLetter(spaced[i - 1])
        THEN UpperChar(spaced[i]) ELSE LowerChar(spaced[i])]

----------------------------------------------------------------------------
(* Plan source text, as tokens.  A statement token carries the rendering   *)
(* of its operand (s), the identifiers it references (names) and the       *)
(* call shapes its text holds (calls).                                     *)

Tok(k) == [k |-> k, s |-> <<>>, names |-> <<>>, calls |-> <<>>]
Ident(chars) == [k |-> "id", s |-> chars, names |-> <<>>, calls |-> <<>>]
Stmt(k, s, names, calls) == [k |-> k, s |-> s, names |-> names, calls |-> calls]

StructuralKinds == {"def", "id", "lparen", "rparen", "comma", "colon"}
StatementKinds == {"doc", "yield", "yield_from", "expr"}

id_unknown   == <<"u","n","k","n","o","w","n">>
id_count     == <<"c","o","u","n","t">>
id_list_scan == <<"l","i","s","t","_","s","c","a","n">>
id_CountScan == <<"C","o","u","n","t","_","S","C","A","N">>
id_countlist == <<"c","o","u","n","t","_","l","i","s","t">>
id_ListGrid  == <<"L","i","s","t","_","G","r","i","d">>
id_my_plan   == <<"m","y","_","p","l","a","n">>
id_detectors == <<"d","e","t","e","c","t","o","r","s">>
id_num       == <<"n","u","m">>
id_delay     == <<"d","e","l","a","y">>
id_bps       == <<"b","p","s">>
id_Motor_X   == <<"M","o","t","o","r","_","X">>
id_pilatus   == <<"p","i","l","a","t","u","s">>
id_sample    == <<"s","a","m","p","l","e">>
id_list      == <<"l","i","s","t">>

PlanNames ==
    {kw_scan, id_count, id_list_scan, id_CountScan, id_countlist, id_ListGrid, id_my_plan}
ParamNames == {id_detectors, id_num, id_delay}

\* def name(p1, p2, ...): <body>
RECURSIVE ParamTokens(_)
ParamTokens(ps) ==
    IF ps = <<>> THEN <<>>
    ELSE IF Len(ps) = 1 THEN <<Ident(Head(ps))>>
    ELSE <<Ident(Head(ps)), Tok("comma")>> \o ParamTokens(Tail(ps))

RenderSource(name, ps, body) ==
    <<Tok("def"), Ident(name), Tok("lparen")>> \o ParamTokens(ps)
        \o <<Tok("rparen"), Tok("colon")>> \o body

DocText == <<"Scan a motor and read the detectors.">>

StubBody ==
    <<Stmt("yield_from", <<"plan_stub()">>, <<<<"p","l","a","n","_","s","t","u","b">>>>, <<>>)>>

MoveBody ==
    <<Stmt("yield", <<"Msg('read', pilatus)">>, <<<<"M","s","g">>, id_pilatus>>, <<>>),
      Stmt("yield_from", <<"bps.mv(Motor_X, 1)">>, <<id_bps, id_Motor_X>>,
           <<[fn |-> <<"b","p","s",".","m","v">>, args |-> <<"Motor_X, 1">>]>>),
      Stmt("expr", <<"pilatus">>, <<id_pilatus>>, <<>>)>>

DocStmt == Stmt("doc", DocText, <<>>, <<>>)

\* function bodies: with and without a leading docstring
Bodies == {StubBody, <<DocStmt>> \o StubBody, <<DocStmt>> \o MoveBody}

\* the source with the first token of kind k removed
DropFirst(toks, k) ==
    IF \E i \in 1..Len(toks) : toks[i].k = k
    THEN LET i == CHOOSE i \in 1..Len(toks) :
                    toks[i].k = k /\ \A j \in 1..(i - 1) : toks[j].k # k
         IN SubSeq(toks, 1, i - 1) \o SubSeq(toks, i + 1, Len(toks))
    ELSE toks

Malformations == {"intact", "def", "rparen", "colon", "doc", "unbalanced"}

Garble(toks, m) ==
    CASE m = "intact" -> toks
      [] m = "unbalanced" -> Append(toks, Tok("lparen"))
      [] OTHER -> DropFirst(toks, m)

----------------------------------------------------------------------------
(* ast.parse, as far as plan sources go: one function definition with      *)
(* distinct parameter names and a non-empty body of statements.            *)

\* index of the first "rparen" token, or 0
FirstRparen(toks) ==
    IF \E i \in 1..Len(toks) : toks[i].k = "rparen"
    THEN CHOOSE i \in 1..Len(toks) :
            toks[i].k = "rparen" /\ \A j \in 1..(i - 1) : toks[j].k # "rparen"
    ELSE 0

\* tokens strictly between "(" and ")" form: nothing, or id {, id}
ParamListOk(ts) ==
    \/ ts = <<>>
    \/ /\ Len(ts) % 2 = 1
       /\ \A i \in 1..Len(ts) :
             ts[i].k = (IF i % 2 = 1 THEN "id" ELSE "comma")
       /\ \A i, j \in 1..Len(ts) :
             (i # j /\ ts[i].k = "id" /\ ts[j].k = "id") => ts[i].s # ts[j].s

SyntaxOk(toks) ==
    LET r == FirstRparen(toks) IN
    /\ Len(toks) >= 6
    /\ toks[1].k = "def" /\ toks[2].k = "id" /\ toks[3].k = "lparen"
    /\ r >= 4
    /\ ParamListOk(SubSeq(toks, 4, r - 1))
    /\ Len(toks) >= r + 2
    /\ toks[r + 1].k = "colon"
    /\ \A i \in (r + 2)..Len(toks) : toks[i].k \in StatementKinds

\* the parsed function: its name, parameters and body statements
AstParse(toks) ==
    IF SyntaxOk(toks)
    THEN LET r == FirstRparen(toks) IN
         Ok([name |-> toks[2].s,
             args |-> LET ids == SelectSeq(SubSeq(toks, 4, r - 1), LAMBDA t : t.k = "id")
                      IN [i \in 1..Len(ids) |-> ids[i].s],
             body |-> SubSeq(toks, r + 2, Len(toks))])
    ELSE Raised("SyntaxError")

----------------------------------------------------------------------------
(* PlanExplainer._parse_plan_source.                                       *)

DevicePatterns == {kw_motor, kw_detector, id_pilatus, id_sample}

RECURSIVE AddDevices(_, _)
\* append each identifier matching a device pattern, once
AddDevices(devs, names) ==
    IF names = <<>> THEN devs
    ELSE LET n == Head(names) IN
         IF ContainsAny(Lower(n), DevicePatterns) /\ ~(\E i \in 1..Len(devs) : devs[i] = n)
         THEN AddDevices(Append(devs, n), Tail(names))
         ELSE AddDevices(devs, Tail(names))

RECURSIVE AllNames(_)
AllNames(body) ==
    IF body = <<>> THEN <<>> ELSE Head(body).names \o AllNames(Tail(body))

RECURSIVE AllCalls(_)
AllCalls(toks) ==
    IF toks = <<>> THEN <<>> ELSE Head(toks).calls \o AllCalls(Tail(toks))

MovementPatterns == <<<<"m","v">>, kw_scan, id_count, id_list_scan>>

EndsWith(s, suffix) ==
    /\ Len(s) >= Len(suffix)
    /\ SubSeq(s, Len(s) - Len(suffix) + 1, Len(s)) = suffix

\* re.findall of one pattern `<fn>\((.*?)\)`: the arguments of every call
\* whose text ends in the pattern's name right before the parenthesis
FindAll(pattern, calls) ==
    LET hits == SelectSeq(calls, LAMBDA c : EndsWith(c.fn, pattern)) IN
    [i \in 1..Len(hits) |-> hits[i].args]

RECURSIVE Movements(_, _)
Movements(patterns, calls) ==
    IF patterns = <<>> THEN <<>>
    ELSE FindAll(Head(patterns), calls) \o Movements(Tail(patterns), calls)

DefaultInfo ==
    [name |-> id_unknown, parameters |-> <<>>, docstring |-> <<>>,
     yields |-> <<>>, devices |-> <<>>, movements |-> <<>>]

\* a plausible slip: the movement patterns searched outside the try, so that
\* they are found in a source that does not parse
ParsePlanSource_MovementsUnguarded(source) ==
    LET tree == AstParse(source) IN
    IF tree.raised
    THEN [DefaultInfo EXCEPT !.movements = Movements(MovementPatterns, AllCalls(source))]
    ELSE LET f == tree.val
             ys == SelectSeq(f.body, LAMBDA t : t.k = "yield")
         IN [name |-> f.name,
             parameters |-> f.args,
             docstring |-> IF Head(f.body).k = "doc" THEN Head(f.body).s ELSE <<>>,
             yields |-> [i \in 1..Len(ys) |-> ys[i].s],
             devices |-> AddDevices(<<>>, AllNames(f.body)),
             movements |->
                 Movements(MovementPatterns,
                           <<[fn |-> f.name, args |-> Join(f.args, ", ")]>>
                               \o AllCalls(f.body))]

ParsePlanSource(source) ==
    LET tree == AstParse(source) IN
    IF tree.raised THEN DefaultInfo
    ELSE LET f == tree.val
             ys == SelectSeq(f.body, LAMBDA t : t.k = "yield")
         IN [name |-> f.name,
             parameters |-> f.args,
             docstring |-> IF Head(f.body).k = "doc" THEN Head(f.body).s ELSE <<>>,
             yields |-> [i \in 1..Len(ys) |-> ys[i].s],
             devices |-> AddDevices(<<>>, AllNames(f.body)),
             movements |->
                 Movements(MovementPatterns,
                           <<[fn |-> f.name, args |-> Join(f.args, ", ")]>>
                               \o AllCalls(f.body))]

----------------------------------------------------------------------------
(* Explanation contexts: None, a mapping, or a value that is no mapping.   *)

NoContext == [kind |-> "none", keys |-> {}]
DictContext(ks) == [kind |-> "dict", keys |-> ks]
ScalarContext == [kind |-> "scalar", keys |-> {}]

Contexts ==
    {NoContext, ScalarContext, DictContext({"sample"}), DictContext({"sample", "energy"})}

\* bool(context)
Truthy(context) ==
    \/ context.kind = "scalar"
    \/ context.kind = "dict" /\ context.keys # {}

ContextValue(k) == IF k = "sample" THEN "Si_wafer" ELSE "12.4"

----------------------------------------------------------------------------
(* PlanExplainer: prompt and templates.                                    *)

BuildExplanationPrompt(plan_info, context) ==
    <<"You are a beamline scientist assistant. Explain the following Bluesky scan plan",
      "Plan Name: ">> \o plan_info.name
    \o <<"Parameters: ">> \o Join(plan_info.parameters, ", ")
    \o <<"Docstring: ">> \o plan_info.docstring
    \o <<"The plan uses these devices: ">> \o Join(plan_info.devices, ", ")
    \o (IF Truthy(context) THEN <<"Additional Context: ", context.kind>> ELSE <<>>)
    \o <<"Please provide:", "Keep the explanation concise and scientific but accessible.">>

Heading(name) == <<"**">> \o TitleName(name) \o <<" Plan**\n\n">>

ScanParamDescription(param) ==
    CASE param = id_detectors ->
           <<"- Detectors: Instruments that collect data (e.g., Pilatus detector for X-ray images)\n">>
      [] param = kw_motor ->
           <<"- Motor: The device being moved (e.g., sample stage, goniometer)\n">>
      [] param = <<"s","t","a","r","t">> ->
           <<"- Start position: Where the scan begins (in mm or degrees)\n">>
      [] param = <<"s","t","o","p">> -> <<"- Stop position: Where the scan ends\n">>
      [] param = id_num -> <<"- Number of points: How many measurements to take\n">>
      [] param = <<"t","i","m","e">> ->
           <<"- Exposure time: How long to collect data at each point (seconds)\n">>
      [] OTHER -> <<"- ">> \o param \o <<": Configuration parameter\n">>

RECURSIVE ScanParamLines(_)
ScanParamLines(params) ==
    IF params = <<>> THEN <<>>
    ELSE ScanParamDescription(Head(params)) \o ScanParamLines(Tail(params))

In(x, seq) == \E i \in 1..Len(seq) : seq[i] = x

ExplainScanPlan(name, params, devices, docstring) ==
    Heading(name)
    \o (IF docstring # <<>> THEN docstring \o <<"\n\n">>
        ELSE <<"This plan performs a continuous scan by moving a motor through a range of positions while collecting data.\n\n">>)
    \o <<"**How it works:**\n",
         "1. The motor moves from a starting position to an ending position\n",
         "2. Data is collected at regular intervals during the movement\n",
         "3. Detectors record measurements at each position\n\n">>
    \o (IF params # <<>> THEN <<"**Parameters needed:**\n">> \o ScanParamLines(params) ELSE <<>>)
    \o <<"\n**Typical use:** Mapping sample properties as a function of position, such as absorption scans or diffraction patterns across a sample.">>

ExplainCountPlan(name, params, devices, docstring) ==
    Heading(name)
    \o (IF docstring # <<>> THEN docstring \o <<"\n\n">>
        ELSE <<"This plan takes repeated measurements at a fixed position.\n\n">>)
    \o <<"**How it works:**\n",
         "1. All motors remain at their current positions\n",
         "2. Detectors collect data for a specified time or number of readings\n",
         "3. Results are averaged or summed to improve statistics\n\n">>
    \o (IF params # <<>>
        THEN <<"**Parameters needed:**\n">>
             \o (IF In(id_detectors, params)
                 THEN <<"- Detectors: Which instruments to read from\n">> ELSE <<>>)
             \o (IF In(id_num, params)
                 THEN <<"- Number of counts: How many readings to take\n">> ELSE <<>>)
             \o (IF In(id_delay, params) \/ In(<<"t","i","m","e">>, params)
                 THEN <<"- Time/Delay: Duration of each measurement or time between measurements\n">>
                 ELSE <<>>)
        ELSE <<>>)
    \o <<"\n**Typical use:** Collecting statistics at a single point, measuring beam intensity, or checking detector response.">>

ExplainListScan(name, params, devices, docstring) ==
    Heading(name)
    \o (IF docstring # <<>> THEN docstring \o <<"\n\n">>
        ELSE <<"This plan moves to specific positions from a list and collects data at each point.\n\n">>)
    \o <<"**How it works:**\n",
         "1. The motor moves to each position in a predefined list\n",
         "2. At each position, the system waits for stability\n",
         "3. Data is collected from all specified detectors\n",
         "4. The process repeats for all positions in the list\n\n">>
    \o (IF params # <<>>
        THEN <<"**Parameters needed:**\n",
               "- Detectors: Instruments for data collection\n",
               "- Motor: The device to move\n",
               "- Position list: Specific positions to visit (e.g., [0, 1.5, 3.2, 5.0] mm)\n">>
        ELSE <<>>)
    \o <<"\n**Typical use:** Measuring at specific points of interest, returning to previously identified features, or non-uniform sampling.">>

RECURSIVE GenericParamLines(_)
GenericParamLines(params) ==
    IF params = <<>> THEN <<>>
    ELSE <<"- ">> \o Head(params) \o <<"\n">> \o GenericParamLines(Tail(params))

ExplainGenericPlan(name, params, devices, docstring) ==
    Heading(name)
    \o (IF docstring # <<>> THEN docstring \o <<"\n\n">>
        ELSE <<"This is a custom measurement plan.\n\n">>)
    \o (IF params # <<>>
        THEN <<"**Parameters:**\n">> \o GenericParamLines(params) \o <<"\n">> ELSE <<>>)
    \o (IF devices # <<>>
        THEN <<"**Devices used:** ">> \o Join(devices, ", ") \o <<"\n\n">> ELSE <<>>)
    \o <<"For more details about this plan, please consult the beamline documentation or contact beamline staff.">>

\* a plausible slip: the count test placed before the scan test
TemplateFor_CountFirst(name) ==
    IF Contains(Lower(name), id_count) THEN "count"
    ELSE IF Contains(Lower(name), kw_scan) THEN "scan"
    ELSE IF Contains(Lower(name), id_list) THEN "list"
    ELSE "generic"

\* which of the four templates _generate_template_explanation selects
TemplateFor(name) ==
    IF Contains(Lower(name), kw_scan) THEN "scan"
    ELSE IF Contains(Lower(name), id_count) THEN "count"
    ELSE IF Contains(Lower(name), id_list) THEN "list"
    ELSE "generic"

\* `'sample' in context` / context['sample'] on a value that is no mapping
ContextLines(context) ==
    IF ~Truthy(context) THEN Ok(<<>>)
    ELSE IF context.kind # "dict" THEN Raised("TypeError")
    ELSE Ok((IF "sample" \in context.keys
             THEN <<"\n\nThis will be performed on sample: ", ContextValue("sample")>>
             ELSE <<>>)
            \o (IF "energy" \in context.keys
                THEN <<"\nBeam energy: ", ContextValue("energy"), " keV">>
                ELSE <<>>))

GenerateTemplateExplanation(plan_info, context) ==
    LET name == plan_info.name
        params == plan_info.parameters
        devices == plan_info.devices
        docstring == plan_info.docstring
        kind == TemplateFor(name)
        explanation ==
            CASE kind = "scan" -> ExplainScanPlan(name, params, devices, docstring)
              [] kind = "count" -> ExplainCountPlan(name, params, devices, docstring)
              [] kind = "list" -> ExplainListScan(name, params, devices, docstring)
              [] OTHER -> ExplainGenericPlan(name, params, devices, docstring)
        extra == ContextLines(context)
    IN IF extra.raised THEN extra ELSE Ok(explanation \o extra.val)

----------------------------------------------------------------------------
(* PlanExplainer._generate_local_explanation and PlanExplainer.explain.    *)

LocalProviders == {"lmstudio", "ollama"}
Providers == {"openai"} \cup LocalProviders

PoorLength == 50
FailureText == <<"Unable to generate explanation for this plan.">>

\* a plausible slip: the threshold itself counted as good enough
GenerateLocalExplanation_AtLeast(prompt, plan_info, context, chat, text) ==
    LET explanation == IF chat.raised THEN text ELSE chat IN
    IF explanation.raised
    THEN GenerateTemplateExplanation(plan_info, context)
    ELSE IF explanation.val # <<>> /\ TextLen(explanation.val) >= PoorLength
    THEN explanation
    ELSE GenerateTemplateExplanation(plan_info, context)

\* a plausible slip: every non-empty reply returned, whatever its length
GenerateLocalExplanation_AnyReply(prompt, plan_info, context, chat, text) ==
    LET explanation == IF chat.raised THEN text ELSE chat IN
    IF explanation.raised
    THEN GenerateTemplateExplanation(plan_info, context)
    ELSE IF explanation.val # <<>>
    THEN explanation
    ELSE GenerateTemplateExplanation(plan_info, context)

\* chat and text are what generate_chat and generate_text do when called
GenerateLocalExplanation(prompt, plan_info, context, chat, text) ==
    LET explanation == IF chat.raised THEN text ELSE chat IN
    IF explanation.raised
    THEN GenerateTemplateExplanation(plan_info, context)
    ELSE IF explanation.val # <<>> /\ TextLen(explanation.val) > PoorLength
    THEN explanation
    ELSE GenerateTemplateExplanation(plan_info, context)

\* a plausible slip: the explanation returned without the enclosing try
Explain_NoCatch(plan_source, context, provider, chat, text) ==
    LET plan_info == ParsePlanSource(plan_source)
        prompt == BuildExplanationPrompt(plan_info, context)
    IN IF provider \in LocalProviders
       THEN GenerateLocalExplanation(prompt, plan_info, context, chat, text)
       ELSE GenerateTemplateExplanation(plan_info, context)

Explain(plan_source, context, provider, chat, text) ==
    LET plan_info == ParsePlanSource(plan_source)
        prompt == BuildExplanationPrompt(plan_info, context)
        explanation ==
            IF provider \in LocalProviders
            THEN GenerateLocalExplanation(prompt, plan_info, context, chat, text)
            ELSE GenerateTemplateExplanation(plan_info, context)
    IN IF explanation.raised THEN Ok(FailureText) ELSE explanation

\* parameter lists: distinct names, at most MaxParams of them
ParamLists ==
    { ps \in UNION { [1..n -> ParamNames] : n \in 0..MaxParams } :
        \A i, j \in 1..Len(ps) : i # j => ps[i] # ps[j] }

\* replies of the inference service: empty, short and long
Replies ==
    { <<>>, <<"A scan.">>,
      <<"This plan performs a continuous scan across motor positions.">> }

ServiceOutcomes == {Raised("TimeoutError")} \cup {Ok(r) : r \in Replies}

----------------------------------------------------------------------------
(* The remote scheduler, as the Gateway sees it: every HTTP exchange       *)
(* either raises in the transport or yields a status and a JSON body.      *)

StatusModes == {"ok", "unavailable", "refused"}
ApiModes == {"ok", "error", "timeout", "garbled"}

\* the exchange a request meets when the endpoint is in the given mode
Respond(mode, body) ==
    CASE mode = "ok" -> [raises |-> FALSE, status |-> 200, json |-> Ok(body)]
      [] mode = "garbled" -> [raises |-> FALSE, status |-> 200, json |-> Raised("ContentTypeError")]
      [] mode = "error" -> [raises |-> FALSE, status |-> 500, json |-> Raised("ContentTypeError")]
      [] mode = "unavailable" -> [raises |-> FALSE, status |-> 503, json |-> Raised("ContentTypeError")]
      [] mode = "timeout" -> [raises |-> TRUE, status |-> 0, json |-> Raised("TimeoutError")]
      [] OTHER -> [raises |-> TRUE, status |-> 0, json |-> Raised("ClientError")]

id_motor_x == <<"m","o","t","o","r","_","x">>
RegistryNames == {id_motor_x, id_pilatus, id_count}

\* dict.get(key, default)
Get(d, k, default) == IF k \in DOMAIN d THEN d[k] ELSE default

Mapping(d) == [is_mapping |-> TRUE, fields |-> d]
NotAMapping == [is_mapping |-> FALSE, fields |-> <<>>]

\* a full registry entry for a name, as the scheduler tests deliver it
FullInfo(name) ==
    CASE name = id_motor_x ->
           Mapping([device_class |-> "EpicsMotor", description |-> "Sample X motor",
                    is_readable |-> TRUE, is_movable |-> TRUE,
                    components |-> <<"position", "velocity">>])
      [] name = id_pilatus ->
           Mapping([device_class |-> "PilatusDetector", description |-> "Pilatus 300K detector",
                    is_readable |-> TRUE, is_movable |-> FALSE])
      [] OTHER ->
           Mapping([description |-> "Take repeated measurements",
                    parameters |-> <<id_detectors, id_num, id_delay>>,
                    module |-> "bluesky.plans", is_generator |-> TRUE])

\* the entries the scheduler may hold for a name: full, empty, malformed, and
\* for the detector one whose device_class is a device type
InfosOf(name) ==
    {FullInfo(name), Mapping(<<>>), NotAMapping}
        \cup (IF name = id_pilatus THEN {Mapping([device_class |-> "detector"])} ELSE {})

----------------------------------------------------------------------------
(* QServerClient: connection handling.                                     *)

Client(connected, session) == [connected |-> connected, session |-> session]

\* connect(): a fresh session, then the status request
Connect(cl, status_http) ==
    Client(IF status_http.raises THEN FALSE
           ELSE IF status_http.status = 200 THEN TRUE
           ELSE cl.connected,
           "open")

\* `if not self._connected: await self.connect()`
EnsureConnected(cl, status_http) ==
    IF ~cl.connected THEN Connect(cl, status_http) ELSE cl

\* a request on self.session: no session or a closed one raises
Send(cl, http) ==
    IF cl.session = "open" THEN http
    ELSE [raises |-> TRUE, status |-> 0,
          json |-> Raised(IF cl.session = "none" THEN "AttributeError" ELSE "RuntimeError")]

\* disconnect()
Disconnect(cl) ==
    IF cl.session # "none" THEN Client(FALSE, "closed") ELSE cl

\* is_connected()
IsConnected(cl) == cl.connected

Outcome(cl, result) == [client |-> cl, result |-> result]

----------------------------------------------------------------------------
(* QServerClient: the read operations.                                     *)

FormatDevice(item) ==
    [name |-> item.name,
     type |-> Get(item.info.fields, "device_class", "unknown"),
     description |-> Get(item.info.fields, "description", ""),
     components |-> Get(item.info.fields, "components", <<>>),
     is_readable |-> Get(item.info.fields, "is_readable", TRUE),
     is_movable |-> Get(item.info.fields, "is_movable", FALSE)]

FormatPlan(item) ==
    [name |-> item.name,
     description |-> Get(item.info.fields, "description", ""),
     parameters |-> Get(item.info.fields, "parameters", <<>>),
     module |-> Get(item.info.fields, "module", ""),
     is_generator |-> Get(item.info.fields, "is_generator", TRUE)]

\* the loop over data.get(key, {}).items(); info.get on a non-mapping raises
FormatAll(items, key) ==
    IF \E i \in 1..Len(items) : ~items[i].info.is_mapping
    THEN Raised("AttributeError")
    ELSE Ok([i \in 1..Len(items) |->
                IF key = "devices" THEN FormatDevice(items[i]) ELSE FormatPlan(items[i])])

\* the body of get_devices / get_plans after the connection check
Listing(r, key) ==
    IF r.raises THEN Ok(<<>>)
    ELSE IF r.status = 200
    THEN IF r.json.raised THEN Ok(<<>>)
         ELSE LET formatted == FormatAll(r.json.val, key)
              IN IF formatted.raised THEN Ok(<<>>) ELSE formatted
    ELSE Ok(<<>>)

\* a plausible slip: a non-200 status raised instead of answered with []
GetDevices_RaiseOnStatus(cl, status_http, http) ==
    LET c == EnsureConnected(cl, status_http)
        r == Send(c, http)
    IN IF ~r.raises /\ r.status # 200
       THEN Outcome(c, Raised("Exception"))
       ELSE Outcome(c, Listing(r, "devices"))

GetDevices(cl, status_http, http) ==
    LET c == EnsureConnected(cl, status_http)
    IN Outcome(c, Listing(Send(c, http), "devices"))

GetPlans(cl, status_http, http) ==
    LET c == EnsureConnected(cl, status_http)
    IN Outcome(c, Listing(Send(c, http), "plans"))

\* the docstring of the source template: description, then the parameters
RECURSIVE TemplateParamLines(_)
TemplateParamLines(ps) ==
    IF ps = <<>> THEN <<>>
    ELSE <<"    - ">> \o Head(ps) \o <<"\n">> \o TemplateParamLines(Tail(ps))

\* a plausible slip: no docstring written for a plan without a description
SourceTemplate_BareWhenUndescribed(plan_name, plan_info) ==
    RenderSource(plan_name, plan_info.parameters,
        (IF plan_info.description = "" THEN <<>>
         ELSE <<Stmt("doc",
                     <<plan_info.description, "\n\nParameters:\n">>
                         \o TemplateParamLines(plan_info.parameters),
                     <<>>, <<>>)>>)
        \o StubBody)

SourceTemplate(plan_name, plan_info) ==
    RenderSource(plan_name, plan_info.parameters,
        <<Stmt("doc",
               <<plan_info.description, "\n\nParameters:\n">>
                   \o TemplateParamLines(plan_info.parameters),
               <<>>, <<>>)>>
        \o StubBody)

GetPlanSource(cl, status_http, http, plan_name) ==
    LET c == EnsureConnected(cl, status_http)
        listed == GetPlans(c, status_http, http)
        plans == listed.result.val
        found == SelectSeq(plans, LAMBDA q : q.name = plan_name)
    IN IF found = <<>>
       THEN Outcome(listed.client, Ok(Absent))
       ELSE Outcome(listed.client, Ok(Some(SourceTemplate(plan_name, Head(found)))))

----------------------------------------------------------------------------
(* QServerClient: queue management and status.                             *)

\* submit_plan logs and re-raises every failure
SubmitPlan(cl, status_http, http, plan_dict) ==
    LET c == EnsureConnected(cl, status_http)
        r == Send(c, http)
    IN IF ~Has(plan_dict, "name") THEN Outcome(c, Raised("ValueError"))
       ELSE IF r.raises THEN Outcome(c, r.json)
       ELSE IF r.status = 200 THEN Outcome(c, r.json)
       ELSE Outcome(c, Raised("Exception"))

DefaultQueue == [plan_queue |-> <<>>, queue_size |-> 0, running |-> FALSE]

\* data.get on a body that is no mapping raises
QueueInfo(data) ==
    IF ~data.is_mapping THEN Raised("AttributeError")
    ELSE Ok([running_item |-> Get(data.fields, "running_item", None),
             plan_queue |-> Get(data.fields, "items", <<>>),
             queue_size |-> Len(Get(data.fields, "items", <<>>)),
             running |-> Get(data.fields, "running_item", None) # None])

GetQueueStatus(cl, status_http, http) ==
    LET c == EnsureConnected(cl, status_http)
        r == Send(c, http)
    IN IF r.raises THEN Outcome(c, Ok(DefaultQueue))
       ELSE IF r.status = 200
       THEN IF r.json.raised THEN Outcome(c, Ok(DefaultQueue))
            ELSE LET info == QueueInfo(r.json.val)
                 IN Outcome(c, IF info.raised THEN Ok(DefaultQueue) ELSE info)
       ELSE Outcome(c, Ok(DefaultQueue))

\* a plausible slip: the transport failure not caught
PostForBool_Propagates(cl, status_http, http) ==
    LET c == EnsureConnected(cl, status_http)
        r == Send(c, http)
    IN IF r.raises THEN Outcome(c, r.json) ELSE Outcome(c, Ok(r.status = 200))

\* clear_queue, remove_queue_item, pause_run_engine, resume_run_engine:
\* one POST, True on status 200 and False otherwise
PostForBool(cl, status_http, http) ==
    LET c == EnsureConnected(cl, status_http)
        r == Send(c, http)
    IN IF r.raises THEN Outcome(c, Ok(FALSE)) ELSE Outcome(c, Ok(r.status = 200))

UnknownStatus == [manager_state |-> "unknown", re_state |-> "unknown"]
ErrorStatus == [manager_state |-> "error", re_state |-> "error"]
IdleStatus == [manager_state |-> "idle", re_state |-> "idle"]

GetEnvironmentStatus(cl, status_http) ==
    LET c == EnsureConnected(cl, status_http)
        r == Send(c, status_http)
    IN IF r.raises THEN Outcome(c, Ok(ErrorStatus))
       ELSE IF r.status = 200
       THEN Outcome(c, IF r.json.raised THEN Ok(ErrorStatus) ELSE r.json)
       ELSE Outcome(c, Ok(UnknownStatus))

BoolOperations ==
    {"clear_queue", "remove_queue_item", "pause_run_engine", "resume_run_engine"}

QueueBodies ==
    { Mapping([items |-> <<>>]),
      Mapping([items |-> <<"item-1">>, running_item |-> "running-item"]),
      NotAMapping }

SubmittedPlans == { [name |-> "scan", args |-> <<>>], [args |-> <<>>] }
SubmitReply == Mapping([success |-> TRUE])
ItemUids == {"item-1"}

\* a call and its result are tuples that begin with the operation's name
NoCall == <<"none", <<>>>>
Call(op, arg) == <<op, arg>>
NoResult == <<"none", NotCalled>>
ResultOf(op, result) == <<op, result>>

\* how a connect() ended: status 200, another status, or an exception
ConnectOutcome(status_http) ==
    IF status_http.raises THEN "raised"
    ELSE IF status_http.status = 200 THEN "ok" ELSE "status"

----------------------------------------------------------------------------
(* Local Inference Client.  A generated text is a sequence of segments:    *)
(* words and single whitespace characters.                                 *)

Whitespace == {" ", "\n", "\t"}

\* str.strip()
RECURSIVE LStrip(_)
LStrip(t) ==
    IF t # <<>> /\ Head(t) \in Whitespace THEN LStrip(Tail(t)) ELSE t

RECURSIVE RStrip(_)
RStrip(t) ==
    IF t # <<>> /\ t[Len(t)] \in Whitespace THEN RStrip(SubSeq(t, 1, Len(t) - 1)) ELSE t

\* a plausible slip: lstrip for strip
Strip_LeadingOnly(t) == LStrip(t)

Strip(t) == RStrip(LStrip(t))

ReplySegments == {" ", "\n", "A scan."}
ReplyShapes == {"full", "no choice", "bare"}

\* the JSON body each backend's endpoint sends for a reply
LMStudioCompletionBody(reply) ==
    CASE reply.shape = "full" ->
           [choices |-> <<[text |-> reply.text], [text |-> <<"Second choice.">>]>>]
      [] reply.shape = "no choice" -> [choices |-> <<>>]
      [] OTHER -> [object |-> "text_completion"]

LMStudioChatBody(reply) ==
    CASE reply.shape = "full" ->
           [choices |-> <<[message |-> [role |-> "assistant", content |-> reply.text]],
                          [message |-> [role |-> "assistant", content |-> <<"Second choice.">>]]>>]
      [] reply.shape = "no choice" -> [choices |-> <<>>]
      [] OTHER -> [object |-> "chat.completion"]

OllamaGenerateBody(reply) ==
    IF reply.shape = "full" THEN [response |-> reply.text, done |-> TRUE]
    ELSE [done |-> TRUE]

OllamaChatBody(reply) ==
    IF reply.shape = "full"
    THEN [message |-> [role |-> "assistant", content |-> reply.text], done |-> TRUE]
    ELSE [done |-> TRUE]

\* result["choices"][0]["text"]
LMStudioText(result) ==
    IF ~Has(result, "choices") THEN Raised("KeyError")
    ELSE IF Len(result.choices) = 0 THEN Raised("IndexError")
    ELSE IF ~Has(result.choices[1], "text") THEN Raised("KeyError")
    ELSE Ok(result.choices[1].text)

\* result["choices"][0]["message"]["content"]
LMStudioChatText(result) ==
    IF ~Has(result, "choices") THEN Raised("KeyError")
    ELSE IF Len(result.choices) = 0 THEN Raised("IndexError")
    ELSE IF ~Has(result.choices[1], "message") THEN Raised("KeyError")
    ELSE IF ~Has(result.choices[1].message, "content") THEN Raised("KeyError")
    ELSE Ok(result.choices[1].message.content)

\* result.get("response", "")
OllamaText(result) ==
    Ok(IF Has(result, "response") THEN result.response ELSE <<>>)

\* result.get("message", {}).get("content", "")
OllamaChatText(result) ==
    Ok(IF Has(result, "message") /\ Has(result.message, "content")
       THEN result.message.content ELSE <<>>)

\* the text at a backend's JSON path
TextAt(path, result) ==
    CASE path = "choices.0.text" -> LMStudioText(result)
      [] path = "choices.0.message.content" -> LMStudioChatText(result)
      [] path = "response" -> OllamaText(result)
      [] OTHER -> OllamaChatText(result)

LMStudioGenerateError == <<"Error generating response with LMStudio">>
LMStudioChatError == <<"Error generating chat response with LMStudio">>
OllamaGenerateError == <<"Error generating response with Ollama">>
OllamaChatError == <<"Error generating chat response with Ollama">>
NotInitialized == <<"Local LLM client not initialized">>

\* LocalLLMClient.connect(): a fresh session, the health request, and on a
\* non-200 answer the backend's connection test
LLMConnect(cl, health_http, test_http) ==
    IF health_http.raises THEN Outcome(Client(FALSE, "open"), Ok(FALSE))
    ELSE IF health_http.status = 200 THEN Outcome(Client(TRUE, "open"), Ok(TRUE))
    ELSE IF ~test_http.raises /\ test_http.status = 200 /\ ~test_http.json.raised
    THEN Outcome(Client(TRUE, "open"), Ok(TRUE))
    ELSE Outcome(Client(cl.connected, "open"), Ok(FALSE))

\* `if not self._connected: await self.connect()`, the result not looked at
LLMEnsureConnected(cl, health_http) ==
    IF ~cl.connected THEN LLMConnect(cl, health_http, health_http).client ELSE cl

\* the shape shared by generate and chat of both backends: connect if
\* needed, one POST, the text at the backend's JSON path, stripped
Completion(cl, health_http, post_http, path, error_string) ==
    LET c == LLMEnsureConnected(cl, health_http)
        r == Send(c, post_http)
    IN IF r.raises THEN Outcome(c, Ok(error_string))
       ELSE IF r.status = 200
       THEN IF r.json.raised THEN Outcome(c, Ok(error_string))
            ELSE LET text == TextAt(path, r.json.val)
                 IN Outcome(c, Ok(IF text.raised THEN error_string ELSE Strip(text.val)))
       ELSE Outcome(c, Ok(error_string))

LMStudioGenerate(cl, health_http, post_mode, reply) ==
    Completion(cl, health_http, Respond(post_mode, LMStudioCompletionBody(reply)),
               "choices.0.text", LMStudioGenerateError)

LMStudioChat(cl, health_http, post_mode, reply) ==
    Completion(cl, health_http, Respond(post_mode, LMStudioChatBody(reply)),
               "choices.0.message.content", LMStudioChatError)

OllamaGenerate(cl, health_http, post_mode, reply) ==
    Completion(cl, health_http, Respond(post_mode, OllamaGenerateBody(reply)),
               "response", OllamaGenerateError)

OllamaChat(cl, health_http, post_mode, reply) ==
    Completion(cl, health_http, Respond(post_mode, OllamaChatBody(reply)),
               "message.content", OllamaChatError)

ClientKinds == LocalProviders \cup {"other"}

\* what a LocalLLMClient other than the two backends may do when called:
\* the abstract methods promise a string and forbid nothing
OtherClientOutcomes ==
    {Ok(<<"A scan.">>), Raised("TimeoutError"), Raised("ClientError")}

\* client.generate(prompt) for the client the service holds
ClientGenerate(kind, cl, health_http, post_mode, reply, other) ==
    CASE kind = "lmstudio" -> LMStudioGenerate(cl, health_http, post_mode, reply)
      [] kind = "ollama" -> OllamaGenerate(cl, health_http, post_mode, reply)
      [] OTHER -> Outcome(cl, other)

\* client.chat(messages)
ClientChat(kind, cl, health_http, post_mode, reply, other) ==
    CASE kind = "lmstudio" -> LMStudioChat(cl, health_http, post_mode, reply)
      [] kind = "ollama" -> OllamaChat(cl, health_http, post_mode, reply)
      [] OTHER -> Outcome(cl, other)

\* LocalLLMService.generate_text
GenerateText(kind, cl, health_http, post_mode, reply, other) ==
    IF kind = "none" THEN Outcome(cl, Ok(NotInitialized))
    ELSE ClientGenerate(kind, cl, health_http, post_mode, reply, other)

\* LocalLLMService.generate_chat
GenerateChat(kind, cl, health_http, post_mode, reply, other) ==
    IF kind = "none" THEN Outcome(cl, Ok(NotInitialized))
    ELSE ClientChat(kind, cl, health_http, post_mode, reply, other)

\* LocalLLMFactory.create_client
CreateClient(provider) ==
    IF provider \in LocalProviders THEN Ok(provider) ELSE Raised("ValueError")

\* what the model listing of Ollama shows about the configured model
ModelListings == {"listed", "missing", "malformed"}

\* LocalLLMService.initialize for a service built under the given provider
Initialize(provider, health_http, listing) ==
    IF provider \notin LocalProviders
    THEN [kind |-> "none", client |-> Client(FALSE, "none"), result |-> Ok(TRUE)]
    ELSE LET connected == LLMConnect(Client(FALSE, "none"), health_http, health_http)
         IN [kind |-> CreateClient(provider).val,
             client |-> connected.client,
             result |-> IF ~connected.result.val THEN Ok(FALSE)
                        ELSE IF provider = "ollama" /\ listing = "malformed" THEN Ok(FALSE)
                        ELSE Ok(TRUE)]

----------------------------------------------------------------------------
(* BaitChatAgent.process_query and the local-inference path (agent.py).    *)

\* a reply is the concatenation of at most MaxReplyFrags fragments
MaxReplyFrags == 2

kw_list_devices == <<"l","i","s","t","_","d","e","v","i","c","e","s">>
kw_available_motors == <<"a","v","a","i","l","a","b","l","e"," ","m","o","t","o","r","s">>
kw_list_plans == <<"l","i","s","t","_","p","l","a","n","s">>
kw_available_plans == <<"a","v","a","i","l","a","b","l","e"," ","p","l","a","n","s">>
kw_last_scan == <<"l","a","s","t","_","s","c","a","n">>
kw_recent_scan == <<"r","e","c","e","n","t"," ","s","c","a","n">>
kw_generate_plan == <<"g","e","n","e","r","a","t","e","_","p","l","a","n">>
kw_create_scan == <<"c","r","e","a","t","e"," ","s","c","a","n">>
kw_queue == <<"q","u","e","u","e">>

\* the tool names the agent knows
ToolNames ==
    {"list_devices", "list_plans", "get_last_scan",
     "explain_plan", "generate_plan", "manage_queue"}

\* a plausible slip: the matched keyword returned in place of the tool name
ParseActionFromResponse_Keyword(reply) ==
    LET response_lower == Lower(reply) IN
    IF Contains(response_lower, kw_list_devices) \/ Contains(response_lower, kw_available_motors)
    THEN "list_devices"
    ELSE IF Contains(response_lower, kw_list_plans) \/ Contains(response_lower, kw_available_plans)
    THEN "list_plans"
    ELSE IF Contains(response_lower, kw_last_scan) \/ Contains(response_lower, kw_recent_scan)
    THEN "last_scan"
    ELSE IF Contains(response_lower, kw_explain)
    THEN "explain"
    ELSE IF Contains(response_lower, kw_generate_plan) \/ Contains(response_lower, kw_create_scan)
    THEN "generate_plan"
    ELSE IF Contains(response_lower, kw_queue)
    THEN "queue"
    ELSE None

\* _parse_action_from_response: the first keyword group found in the
\* lower-cased reply names the tool
ParseActionFromResponse(reply) ==
    LET response_lower == Lower(reply) IN
    IF Contains(response_lower, kw_list_devices) \/ Contains(response_lower, kw_available_motors)
    THEN "list_devices"
    ELSE IF Contains(response_lower, kw_list_plans) \/ Contains(response_lower, kw_available_plans)
    THEN "list_plans"
    ELSE IF Contains(response_lower, kw_last_scan) \/ Contains(response_lower, kw_recent_scan)
    THEN "get_last_scan"
    ELSE IF Contains(response_lower, kw_explain)
    THEN "explain_plan"
    ELSE IF Contains(response_lower, kw_generate_plan) \/ Contains(response_lower, kw_create_scan)
    THEN "generate_plan"
    ELSE IF Contains(response_lower, kw_queue)
    THEN "manage_queue"
    ELSE None

\* _manage_queue
ManageQueue(action) ==
    CASE action = "view" ->
           <<"Queue: 2 plans pending", "1. scan(motor_x, 0-5mm)", "2. count(pilatus, 10)">>
      [] action = "clear" -> <<"Queue cleared">>
      [] OTHER -> <<"Queue action '", action, "' performed">>

\* _execute_tool_action: the tool's text; none of the canned tools raises
ExecuteToolAction(action, q) ==
    CASE action = "list_devices" -> ListDevicesText
      [] action = "list_plans" -> ListPlansText
      [] action = "get_last_scan" -> LastScanText
      [] action = "explain_plan" -> AgentExplainPlan("scan")
      [] action = "generate_plan" ->
           <<"Generated plan: ", GeneratePlan(q).name,
             " with args [['pilatus'], 'motor_x', 0.0, 5.0, 51]">>
      [] action = "manage_queue" -> ManageQueue("view")
      [] OTHER -> <<"Action not implemented">>

\* what local_llm_service.generate_chat can do: return a text or raise
ChatOutcomes(reply) ==
    {Ok(reply), Raised("TimeoutError"), Raised("ClientError")}

\* a plausible slip: the query classified in place of the reply
ProcessWithLocalLLM_ByQuery(q, chat) ==
    IF chat.raised THEN Ok(SimulateAgentResponse(q))
    ELSE
      LET llm_response == chat.val
          action_taken == ParseActionFromResponse(q)
      IN  IF action_taken # None
          THEN Ok(AgentResponse(llm_response \o <<"\n\n">> \o ExecuteToolAction(action_taken, q),
                                action_taken, 80, Absent))
          ELSE Ok(AgentResponse(llm_response, action_taken, 60, Absent))

\* _process_with_local_llm: the reply decides the action; any exception
\* falls back to the keyword router
ProcessWithLocalLLM(q, chat) ==
    IF chat.raised THEN Ok(SimulateAgentResponse(q))
    ELSE
      LET llm_response == chat.val
          action_taken == ParseActionFromResponse(llm_response)
      IN  IF action_taken # None
          THEN Ok(AgentResponse(llm_response \o <<"\n\n">> \o ExecuteToolAction(action_taken, q),
                                action_taken, 80, Absent))
          ELSE Ok(AgentResponse(llm_response, action_taken, 60, Absent))

\* the response of the outer handler of process_query
ErrorResponse ==
    AgentResponse(<<"I encountered an error processing your request. Please try again.">>,
                  None, 0, Absent)

\* BaitChatAgent.initialize: the flag it leaves behind
AgentInitialize(setup_raises) == ~setup_raises

\* process_query: the provider picks the path; an exception that reaches the
\* outer handler becomes the error response
ProcessQuery(q, provider, chat) ==
    LET out == IF provider \in LocalProviders
               THEN ProcessWithLocalLLM(q, chat)
               ELSE Ok(SimulateAgentResponse(q))
    IN  IF out.raised THEN Ok(ErrorResponse) ELSE out

\* queries: one for each branch the keyword router can take
AgentQueries ==
    { <<"w","h","i","c","h"," ","m","o","t","o","r","?">>,
      <<"w","h","a","t"," ","d","o","e","s"," ","i","t"," ","d","o","?">>,
      <<"r","u","n"," ","i","t">>,
      <<"h","e","l","l","o">>,
      <<"t","h","e"," ","l","a","s","t"," ","s","c","a","n">>,
      <<"L","A","S","T"," ","c","a","l","l">> }

\* replies: tool keywords in mixed case, keyword halves, filler and the
\* texts the inference service returns in place of a completion
ReplyFragments ==
    { kw_list_plans, kw_recent_scan, kw_generate_plan, kw_queue, kw_scan,
      <<"A","c","t","i","o","n",":"," ">>,
      <<"L","I","S","T","_","D","E","V","I","C","E","S">>,
      <<"A","v","a","i","l","a","b","l","e"," ","P","l","a","n","s">>,
      <<"l","a","s","t","_">>,
      <<"C","r","e","a","t","e"," ">>,
      <<"I","'","l","l"," ","e","x","p","l","a","i","n"," ","t","h","e"," ","q","u","e","u","e",".">>,
      <<"E","r","r","o","r"," ","g","e","n","e","r","a","t","i","n","g"," ","c","h","a","t"," ","r","e","s","p","o","n","s","e"," ","w","i","t","h"," ","L","M","S","t","u","d","i","o">>,
      <<"L","o","c","a","l"," ","L","L","M"," ","c","l","i","e","n","t"," ","n","o","t"," ","i","n","i","t","i","a","l","i","z","e","d">> }

----------------------------------------------------------------------------
(* RAGEngine (rag_engine.py): the knowledge base and its simulated search. *)

\* search(query, limit=5)
DefaultLimit == 5

Document(content, source, type) ==
    [content |-> content, metadata |-> [source |-> source, type |-> type]]

SearchResult(content, source, type, score) ==
    [content |-> content, metadata |-> [source |-> source, type |-> type],
     score |-> score]

\* the four canned results of the simulated search (scores in hundredths,
\* the micro sign written u)
MotorResult ==
    SearchResult(<<"M","o","t","o","r"," ","d","e","v","i","c","e","s"," ","a","v","a","i","l","a","b","l","e",":"," ","m","o","t","o","r","_","x",","," ","m","o","t","o","r","_","y",","," ","m","o","t","o","r","_","z","."," ","T","h","e","s","e"," ","a","r","e"," ","s","t","a","n","d","a","r","d"," ","s","t","e","p","p","e","r"," ","m","o","t","o","r","s"," ","w","i","t","h"," ","0",".","0","0","1","m","m"," ","r","e","s","o","l","u","t","i","o","n",".">>,
                 "bits_devices/motors.py", "device_definition", 95)
PlanResult ==
    SearchResult(<<"S","t","a","n","d","a","r","d"," ","s","c","a","n"," ","p","l","a","n","s",":"," ","s","c","a","n","(",")"," ","f","o","r"," ","c","o","n","t","i","n","u","o","u","s"," ","s","c","a","n","s",","," ","c","o","u","n","t","(",")"," ","f","o","r"," ","s","t","a","t","i","c"," ","c","o","u","n","t","i","n","g",","," ","l","i","s","t","_","s","c","a","n","(",")"," ","f","o","r"," ","d","i","s","c","r","e","t","e"," ","p","o","s","i","t","i","o","n","s",".">>,
                 "plans/standard_plans.md", "plan_documentation", 90)
DetectorResult ==
    SearchResult(<<"P","i","l","a","t","u","s"," ","3","0","0","K"," ","d","e","t","e","c","t","o","r",":"," ","2","D"," ","X","-","r","a","y"," ","d","e","t","e","c","t","o","r"," ","w","i","t","h"," ","4","8","7","x","6","1","9"," ","p","i","x","e","l","s",","," ","1","7","2","u","m"," ","p","i","x","e","l"," ","s","i","z","e",","," ","2","0","H","z"," ","f","r","a","m","e"," ","r","a","t","e",".">>,
                 "bits_devices/detectors.json", "device_config", 88)
DefaultResult ==
    SearchResult(<<"B","e","a","m","l","i","n","e"," ","c","o","n","t","r","o","l"," ","s","y","s","t","e","m"," ","u","s","e","s"," ","B","l","u","e","s","k","y"," ","f","o","r"," ","e","x","p","e","r","i","m","e","n","t"," ","o","r","c","h","e","s","t","r","a","t","i","o","n"," ","w","i","t","h"," ","Q","S","e","r","v","e","r"," ","f","o","r"," ","r","e","m","o","t","e"," ","o","p","e","r","a","t","i","o","n",".">>,
                 "documentation/overview.md", "documentation", 70)

\* seq[:limit], for a limit of either sign
Slice(seq, limit) ==
    IF limit >= 0
    THEN SubSeq(seq, 1, IF limit < Len(seq) THEN limit ELSE Len(seq))
    ELSE SubSeq(seq, 1, IF Len(seq) + limit > 0 THEN Len(seq) + limit ELSE 0)

\* the engine: its flag and its vector store (None until initialised)
Engine(initialized, store) == [initialized |-> initialized, store |-> store]
RagOutcome(engine, result) == [engine |-> engine, result |-> result]

\* initialize(): a fresh store holding the documents found on disk
RagInitialize(engine, files) == Engine(TRUE, Some(files))

\* search(): initialisation on first use, then the keyword tests on the
\* lower-cased query text; neither the store nor filter_type is consulted
Search(engine, files, text, limit, filter_type) ==
    LET e == IF ~engine.initialized THEN RagInitialize(engine, files) ELSE engine
        q == Lower(text)
        results ==
            (IF Contains(q, kw_motor) \/ Contains(q, kw_device)
             THEN <<MotorResult>> ELSE <<>>)
            \o (IF Contains(q, kw_scan) \/ Contains(q, kw_plan)
                THEN <<PlanResult>> ELSE <<>>)
            \o (IF Contains(q, id_pilatus) \/ Contains(q, kw_detector)
                THEN <<DetectorResult>> ELSE <<>>)
    IN RagOutcome(e, Ok(Slice(IF results = <<>> THEN <<DefaultResult>> ELSE results,
                              limit)))

SearchDevices(engine, files, text) ==
    Search(engine, files, text, DefaultLimit, "device")

SearchPlans(engine, files, text) ==
    Search(engine, files, text, DefaultLimit, "plan")

\* add_document(): appended to the store; without a store the append raises
\* and the handler answers False
AddDocument(engine, content, metadata) ==
    IF engine.store.some
    THEN RagOutcome(
            Engine(engine.initialized,
                   Some(Append(engine.store.val,
                               [content |-> content, metadata |-> metadata]))),
            Ok(TRUE))
    ELSE RagOutcome(engine, Ok(FALSE))

----------------------------------------------------------------------------
(* DatabrokerClient.get_last_scan (databroker.py): the simulated record.   *)

LastScanRecord ==
    [scan_id |-> "a1b2c3d4-5678-90ab-cdef-1234567890ab", uid |-> "a1b2c3d4",
     plan_name |-> "scan", exit_status |-> "success",
     motors |-> <<"motor_x">>, detectors |-> <<"pilatus">>]

\* connects on first use, then returns the record; nothing in it raises
DatabrokerGetLastScan(connected) ==
    [connected |-> TRUE, result |-> Ok(Some(LastScanRecord))]

----------------------------------------------------------------------------
(* The response and request models (models.py).                            *)

\* PlanStatus
PlanStatuses == {"pending", "running", "completed", "failed", "aborted", "paused"}
\* DeviceType
DeviceTypes ==
    {"motor", "detector", "signal", "flyer", "area_detector",
     "temperature_controller", "other"}

\* ScanMetadata: exit_status must be a PlanStatus
ValidScanMetadata(r) == r.exit_status \in PlanStatuses

\* DeviceResponse: type must be a DeviceType and every component an object
\* with a name and a type; the scheduler's components are names, which are not
ValidDeviceResponse(d) == d.type \in DeviceTypes /\ d.components = <<>>

\* PlanResponse: every parameter must be an object with a name and a type
\* (the scheduler's parameters are names) and enhanced_description a string
ValidPlanResponse(p) == p.parameters = <<>> /\ ~p.enhanced.some

\* a field of a JSON body: left out, null, or a string
Missing == <<"missing">>
Null == <<"null">>
Str(v) == <<"str", v>>
\* bool(value) of the field once parsed (None and "" are falsy)
Supplied(f) == f[1] = "str" /\ f[2] # <<>>

\* ExplainRequest: context must be a mapping or null; validate_source_or_name
\* runs only on a plan_source that was supplied - always on a string, on null
\* only where the validation library runs validators on None
ValidateExplainRequest(body, none_validated) ==
    LET runs == \/ body.plan_source[1] = "str"
                \/ body.plan_source[1] = "null" /\ none_validated
    IN IF body.context.kind = "scalar" THEN Raised("ValidationError")
       ELSE IF runs /\ ~Supplied(body.plan_source) /\ ~Supplied(body.plan_name)
       THEN Raised("ValidationError")
       ELSE Ok(body)

----------------------------------------------------------------------------
(* The HTTP application (main.py).                                         *)

HttpError(status, detail) ==
    [raised |-> TRUE, val |-> <<"HTTPException", status, detail>>]

\* what a handler leaves behind: the Gateway client, the Gateway operations
\* it called, and what it returned or raised
Handled(cl, calls, result) == [client |-> cl, calls |-> calls, result |-> result]

NoHttpResponse == <<"none", 0, <<>>>>
HttpResponse(endpoint, status, body) == <<endpoint, status, body>>

\* FastAPI around a handler: an HTTPException answers with its status, any
\* other exception (a failed response validation included) reaches the global
\* handler, which answers 500
Serve(endpoint, result, valid) ==
    IF result.raised
    THEN IF result.val[1] = "HTTPException"
         THEN HttpResponse(endpoint, result.val[2], result.val[3])
         ELSE HttpResponse(endpoint, 500, "Internal server error")
    ELSE IF valid THEN HttpResponse(endpoint, 200, result.val)
    ELSE HttpResponse(endpoint, 500, "Internal server error")

\* GET /devices: the Gateway's list, returned as it is
DevicesHandler(cl, status_http, http) ==
    LET out == GetDevices(cl, status_http, http)
    IN Handled(out.client, <<"get_devices">>, out.result)

\* GET /plans: every plan gets the (never empty) search result list as its
\* enhanced_description
PlansHandler(cl, status_http, http, engine, files) ==
    LET out == GetPlans(cl, status_http, http)
        plans == out.result.val
    IN Handled(out.client, <<"get_plans">>,
               Ok([i \in 1..Len(plans) |->
                     LET doc == SearchPlans(engine, files, plans[i].name).result.val
                     IN [name |-> plans[i].name,
                         description |-> plans[i].description,
                         parameters |-> plans[i].parameters,
                         module |-> plans[i].module,
                         is_generator |-> plans[i].is_generator,
                         enhanced |-> IF doc # <<>> THEN Some(doc) ELSE Absent]]))

\* GET /last_scan: 404 on no record, else the record
LastScanHandler(store) ==
    IF ~store.result.val.some THEN HttpError(404, "No scans found")
    ELSE Ok(store.result.val.val)

\* POST /explain: the source of a named plan comes from the Gateway, a
\* missing source is a 400, the explainer's text is wrapped in the response
ExplainPlanHandler(body, cl, status_http, http, provider, chat, text) ==
    LET named == Supplied(body.plan_name)
        out == IF named
               THEN GetPlanSource(cl, status_http, http, body.plan_name[2])
               ELSE Outcome(cl, Ok(IF Supplied(body.plan_source)
                                   THEN Some(body.plan_source[2]) ELSE Absent))
        calls == IF named THEN <<"get_plan_source">> ELSE <<>>
        plan_source == out.result.val
    IN IF ~plan_source.some
       THEN Handled(out.client, calls, HttpError(400, "Plan source code required"))
       ELSE LET explanation ==
                    Explain(plan_source.val, body.context, provider, chat, text)
            IN IF explanation.raised
               THEN Handled(out.client, calls, HttpError(500, explanation.val[1]))
               ELSE Handled(out.client, calls,
                            Ok([plan_name |-> body.plan_name,
                                explanation |-> explanation.val]))

\* the six placeholder endpoints
Placeholders ==
    {"/submit_plan", "/queue", "/queue/clear", "/queue/item", "/re/pause", "/re/resume"}

NotImplemented(endpoint) ==
    [status |-> "not_implemented",
     message |->
        CASE endpoint = "/submit_plan" -> "Plan submission will be available in Phase 1.5"
          [] endpoint \in {"/re/pause", "/re/resume"} ->
               "RunEngine control will be available in Phase 1.5"
          [] OTHER -> "Queue management will be available in Phase 1.5"]

\* a plausible slip: the queue and engine placeholders wired to the Gateway
PlaceholderHandler_Wired(endpoint, cl, status_http, http) ==
    IF endpoint \in {"/queue/clear", "/queue/item", "/re/pause", "/re/resume"}
    THEN Handled(PostForBool(cl, status_http, http).client, <<endpoint>>,
                 Ok(NotImplemented(endpoint)))
    ELSE Handled(cl, <<>>, Ok(NotImplemented(endpoint)))

\* a placeholder handler: the fixed answer, whatever the input, and no
\* Gateway call
PlaceholderHandler(endpoint, cl, status_http, http) ==
    Handled(cl, <<>>, Ok(NotImplemented(endpoint)))

\* request bodies of POST /explain
ExplainSources ==
    { <<>>, RenderSource(id_my_plan, <<id_num, id_detectors>>, StubBody) }
ExplainBodies ==
    { [plan_name |-> n, plan_source |-> s, context |-> c] :
        n \in {Missing, Str(<<>>), Str(id_count)},
        s \in {Missing, Null} \cup {Str(t) : t \in ExplainSources},
        c \in {NoContext, ScalarContext, DictContext({"sample"})} }

----------------------------------------------------------------------------
(* The path of a plan's parameters: the scheduler's descriptor, the source *)
(* get_plan_source renders from it, the parsed plan, the explanation       *)
(* template, and the example usage the instrument server generates.        *)

\* a delivered plan has at most MaxPlanParams parameters
MaxPlanParams == 3

id_start     == <<"s","t","a","r","t">>
id_stop      == <<"s","t","o","p">>
id_time      == <<"t","i","m","e">>
id_sim_det   == <<"s","i","m","_","d","e","t">>
id_sim_motor == <<"s","i","m","_","m","o","t","o","r">>

PlanParameters == {id_detectors, id_num, id_delay, kw_motor}

\* the parameter lists a descriptor may carry: distinct names, in any order
DeliveredLists ==
    { ps \in UNION { [1..n -> PlanParameters] : n \in 0..MaxPlanParams } :
        \A i, j \in 1..Len(ps) : i # j => ps[i] # ps[j] }

PlanDescription == "Take repeated measurements"

\* a plan descriptor of the scheduler, with or without a description
Descriptor(name, ps, described) ==
    [name |-> name,
     info |-> IF described
              THEN Mapping([description |-> PlanDescription, parameters |-> ps])
              ELSE Mapping([parameters |-> ps])]

\* the categorised devices examples are built from
AvailableDevices(motors, detectors) == [motors |-> motors, detectors |-> detectors]
\* the fallback of _get_available_devices_for_plans
FallbackDevices == AvailableDevices(<<id_sim_motor>>, <<id_sim_det>>)

DeviceChoices ==
    {FallbackDevices, AvailableDevices(<<id_motor_x>>, <<id_pilatus>>),
     AvailableDevices(<<id_motor_x>>, <<>>), AvailableDevices(<<>>, <<>>)}

\* _get_parameter_suggestions: values rendered as str() gives them
ParameterSuggestions(param_name, available) ==
    IF Contains(Lower(param_name), kw_detector) THEN Slice(available.detectors, 3)
    ELSE IF Contains(Lower(param_name), kw_motor) THEN Slice(available.motors, 3)
    ELSE IF param_name = id_num THEN << <<"1">>, <<"11">>, <<"21">>, <<"51">> >>
    ELSE IF param_name \in {id_start, id_stop}
    THEN << <<"-5">>, <<"-1">>, <<"0">>, <<"1">>, <<"5">> >>
    ELSE IF param_name = id_delay THEN << <<"None">>, <<"0.1">>, <<"1.0">>, <<"5.0">> >>
    ELSE <<>>

\* _analyze_plan_parameters: one detail per raw parameter, in the raw order
\* (of the keys it adds, the example generator reads name and suggestions)
AnalyzePlanParameters(plan_info, available) ==
    LET raw_params == Get(plan_info.fields, "parameters", <<>>) IN
    [i \in 1..Len(raw_params) |->
        [name |-> raw_params[i],
         suggestions |-> ParameterSuggestions(raw_params[i], available)]]

\* one entry of param_examples; [0] of an empty device list raises
ParamExample(param, available) ==
    IF param.suggestions # <<>> THEN Ok(Head(param.suggestions))
    ELSE IF Contains(Lower(param.name), kw_detector) \/ param.name = id_detectors
    THEN IF available.detectors = <<>> THEN Raised("IndexError")
         ELSE Ok(<<"[">> \o Head(available.detectors) \o <<"]">>)
    ELSE IF Contains(Lower(param.name), kw_motor)
    THEN IF available.motors = <<>> THEN Raised("IndexError")
         ELSE Ok(Head(available.motors))
    ELSE IF param.name \in {id_start, id_stop}
    THEN Ok(IF param.name = id_start THEN <<"-1">> ELSE <<"1">>)
    ELSE IF param.name = id_num THEN Ok(<<"11">>)
    ELSE IF param.name = id_delay THEN Ok(<<"None">>)
    ELSE Ok(<<"<">> \o param.name \o <<">">>)

\* a plausible slip: the examples collected by prepending
SmartPlanExample_Prepending(plan_name, parameters, available) ==
    IF parameters = <<>> THEN Ok(plan_name \o <<"()">>)
    ELSE LET examples == [i \in 1..Len(parameters) |->
                             ParamExample(parameters[Len(parameters) + 1 - i], available)]
         IN IF \E i \in 1..Len(examples) : examples[i].raised
            THEN Raised("IndexError")
            ELSE Ok(plan_name \o <<"(">>
                    \o Join([i \in 1..Len(examples) |-> examples[i].val], ", ")
                    \o <<")">>)

\* _get_smart_plan_example
SmartPlanExample(plan_name, parameters, available) ==
    IF parameters = <<>> THEN Ok(plan_name \o <<"()">>)
    ELSE LET examples == [i \in 1..Len(parameters) |->
                             ParamExample(parameters[i], available)]
         IN IF \E i \in 1..Len(examples) : examples[i].raised
            THEN Raised("IndexError")
            ELSE Ok(plan_name \o <<"(">>
                    \o Join([i \in 1..Len(examples) |-> examples[i].val], ", ")
                    \o <<")">>)

\* GET /instrument/plans/detailed: every failure answers an empty list
PlansDetailed(http, available) ==
    IF http.raises THEN <<>>
    ELSE IF http.status # 200 THEN <<>>
    ELSE IF http.json.raised THEN <<>>
    ELSE LET plans_allowed == http.json.val
             details == [i \in 1..Len(plans_allowed) |->
                 LET parameters == AnalyzePlanParameters(plans_allowed[i].info, available)
                 IN [name |-> plans_allowed[i].name,
                     parameters |-> parameters,
                     example_usage |->
                         SmartPlanExample(plans_allowed[i].name, parameters, available)]]
         IN IF \E i \in 1..Len(details) :
                   ~plans_allowed[i].info.is_mapping \/ details[i].example_usage.raised
            THEN <<>>
            ELSE [i \in 1..Len(details) |->
                     [name |-> details[i].name,
                      parameters |-> details[i].parameters,
                      example_usage |-> details[i].example_usage.val]]

\* the values POST /explain computes for a named plan on the way to its
\* answer: the source text, the parsed plan, and the handler's result
ExplainTrace(plan_name, cl, status_http, http, provider, chat, text) ==
    LET source == GetPlanSource(cl, status_http, http, plan_name).result.val
        h == ExplainPlanHandler(
                 [plan_name |-> Str(plan_name), plan_source |-> Missing,
                  context |-> NoContext],
                 cl, status_http, http, provider, chat, text)
    IN [plan_name |-> plan_name,
        source |-> source,
        info |-> IF source.some THEN Some(ParsePlanSource(source.val)) ELSE Absent,
        answer |-> h.result]

NoTrace == <<"none", <<>>>>

----------------------------------------------------------------------------
(* The instrument server (bait_mcp/server.py): device listing and the      *)
(* categories devices are sorted into.                                     *)

\* the scheduler's devices_allowed holds at most MaxDevices entries
MaxDevices == 2

kw_det     == <<"d","e","t">>
kw_scaler  == <<"s","c","a","l","e","r">>
kw_shutter == <<"s","h","u","t","t","e","r">>
kw_slit    == <<"s","l","i","t">>
id_m1      == <<"m","1">>
id_EpicsMotor      == <<"E","p","i","c","s","M","o","t","o","r">>
id_PilatusDetector ==
    <<"P","i","l","a","t","u","s","D","e","t","e","c","t","o","r">>

DeviceNames == {id_motor_x, id_pilatus, id_sim_det, id_m1}

\* the entries devices_allowed may hold for a name: without class
\* information, with a class name, or no mapping at all
DeviceInfosOf(name) ==
    {Mapping(<<>>), NotAMapping,
     Mapping([classname |-> IF Contains(name, kw_motor) \/ name = id_m1
                            THEN id_EpicsMotor ELSE id_PilatusDetector])}

\* str.startswith
StartsWith(s, prefix) ==
    Len(s) >= Len(prefix) /\ SubSeq(s, 1, Len(prefix)) = prefix

\* the name patterns of GET /devices
DeviceTypeOf(device_name) ==
    IF Contains(Lower(device_name), kw_motor) \/ StartsWith(device_name, <<"m">>)
    THEN "motors"
    ELSE IF Contains(Lower(device_name), kw_det) \/ Contains(Lower(device_name), kw_scaler)
    THEN "detectors"
    ELSE "other"

\* the description GET /devices falls back to
DefaultDescription(device_name) ==
    IF DeviceTypeOf(device_name) = "motors" THEN <<"Motor: ">> \o device_name
    ELSE IF DeviceTypeOf(device_name) = "detectors" THEN <<"Detector: ">> \o device_name
    ELSE IF Contains(Lower(device_name), kw_shutter) THEN <<"Shutter: ">> \o device_name
    ELSE <<"Device: ">> \o device_name

DeviceEntry(item) ==
    [name |-> item.name,
     type |-> Get(item.info.fields, "class", "Unknown"),
     description |-> Get(item.info.fields, "description", DefaultDescription(item.name)),
     module |-> Get(item.info.fields, "module", ""),
     classname |-> Get(item.info.fields, "classname", <<>>)]

\* the entries of one category, in the order they were inserted
Organized(items, category) ==
    LET mine == SelectSeq(items, LAMBDA item : DeviceTypeOf(item.name) = category)
    IN [i \in 1..Len(mine) |-> DeviceEntry(mine[i])]

MockDevices ==
    [motors |-> <<[name |-> id_sim_motor, type |-> "SimulatedMotor",
                   description |-> <<"Simulated motor for testing">>]>>,
     detectors |-> <<[name |-> id_sim_det, type |-> "SimulatedDetector",
                      description |-> <<"Simulated noisy detector">>]>>,
     other |-> <<[name |-> kw_shutter, type |-> "SimulatedShutter",
                  description |-> <<"Simulated APS PSS shutter">>]>>]

\* GET /devices: the scheduler's devices by category, the mock devices when
\* the scheduler does not answer 200 or anything raises
McpGetDevices(http) ==
    IF http.raises THEN MockDevices
    ELSE IF http.status # 200 THEN MockDevices
    ELSE IF http.json.raised THEN MockDevices
    ELSE LET devices_dict == http.json.val IN
         IF \E i \in 1..Len(devices_dict) : ~devices_dict[i].info.is_mapping
         THEN MockDevices
         ELSE [motors |-> Organized(devices_dict, "motors"),
               detectors |-> Organized(devices_dict, "detectors"),
               other |-> Organized(devices_dict, "other")]

\* _categorize_device: the name, then the class name
CategorizeDevice(name, info) ==
    LET name_lower == Lower(name)
        class_name == Lower(Get(info.fields, "classname", <<>>))
    IN IF Contains(name_lower, kw_motor) \/ Contains(class_name, kw_motor) THEN "motors"
       ELSE IF Contains(name_lower, kw_det) \/ Contains(class_name, kw_detector)
                \/ Contains(class_name, kw_scaler) THEN "detectors"
       ELSE IF Contains(name_lower, kw_shutter) \/ Contains(class_name, kw_shutter)
       THEN "shutters"
       ELSE IF Contains(name_lower, kw_slit) \/ Contains(class_name, kw_slit) THEN "slits"
       ELSE "other"

\* the names of one category, in the order they were appended
Categorized(items, category) ==
    LET mine == SelectSeq(items,
                    LAMBDA item : CategorizeDevice(item.name, item.info) = category)
    IN [i \in 1..Len(mine) |-> mine[i].name]

FallbackCategories ==
    [motors |-> <<id_sim_motor>>, detectors |-> <<id_sim_det>>,
     shutters |-> <<kw_shutter>>, other |-> <<>>]

\* _get_available_devices_for_plans; "slits" is no key of the result, so a
\* slit goes to "other"
AvailableDevicesForPlans(http) ==
    IF http.raises THEN FallbackCategories
    ELSE IF http.status # 200 THEN FallbackCategories
    ELSE IF http.json.raised THEN FallbackCategories
    ELSE LET devices_data == http.json.val IN
         IF \E i \in 1..Len(devices_data) : ~devices_data[i].info.is_mapping
         THEN FallbackCategories
         ELSE [motors |-> Categorized(devices_data, "motors"),
               detectors |-> Categorized(devices_data, "detectors"),
               shutters |-> Categorized(devices_data, "shutters"),
               other |-> Categorized(devices_data, "slits")
                             \o Categorized(devices_data, "other")]

----------------------------------------------------------------------------
(* Inputs of the knowledge base: documents added, queries searched.        *)

\* add_document is called at most MaxDocuments times
MaxDocuments == 2

TestMotorContent == <<"T","e","s","t"," ","m","o","t","o","r"," ","f","o","r"," ","s","c","a","n","n","i","n","g"," ","a","p","p","l","i","c","a","t","i","o","n","s">>
HolderContent == <<"S","a","m","p","l","e"," ","h","o","l","d","e","r"," ","n","o","t","e","s">>
AddedContents == {TestMotorContent, HolderContent}
AddedMetadata == [source |-> "test_motor.py", type |-> "device_definition"]

SearchQueries ==
    {<<"T","e","s","t"," ","m","o","t","o","r">>, <<"m","o","t","o","r"," ","p","o","s","i","t","i","o","n">>, <<"s","c","a","n"," ","c","o","n","t","i","n","u","o","u","s">>, <<"s","c","a","n">>,
     <<"p","i","l","a","t","u","s">>, <<"b","e","a","m","l","i","n","e"," ","c","o","n","t","r","o","l">>, <<"a","p","p","l","i","c","a","t","i","o","n","s">>, <<"h","o","l","d","e","r">>}
SearchLimits == {1, 3, DefaultLimit}

----------------------------------------------------------------------------
(* DatabrokerClient (databroker.py): the simulated recent scans and the    *)
(* search over them.                                                       *)

\* limits of get_recent_scans and search_scans range over 0 .. MaxLimit
MaxLimit == 7

Digits == <<"0","1","2","3","4","5","6","7","8","9">>

\* f"{i:0{width}d}" for a natural i: at least width digits, zero-padded
RECURSIVE Padded(_, _)
Padded(i, width) ==
    IF i < 10 /\ width <= 1 THEN <<Digits[i + 1]>>
    ELSE Padded(i \div 10, width - 1) \o <<Digits[(i % 10) + 1]>>

RecentPlanNames == <<kw_scan, id_count, id_list_scan>>

\* the i-th simulated scan; age is the minutes its timestamp lies in the past
RecentScan(i) ==
    [scan_id |-> <<"s","c","a","n","_">> \o Padded(i, 4),
     uid |-> <<"u","i","d","_">> \o Padded(i, 4),
     age |-> 30 * i,
     plan_name |-> RecentPlanNames[(i % 3) + 1],
     exit_status |-> IF i % 5 # 0 THEN "success" ELSE "aborted",
     duration |-> 60 + i * 10,
     sample |-> <<"s","a","m","p","l","e","_">> \o Padded(i, 3)]

\* get_recent_scans(limit): connects on first use; range(limit) scans
GetRecentScans(connected, limit) ==
    [connected |-> TRUE,
     result |-> Ok([k \in 1..limit |-> RecentScan(k - 1)])]

\* `if value:` on an optional string: None and "" are falsy
Given(f) == f.some /\ f.val # <<>>

\* a plausible slip: the sample filter tested by equality
SearchScans_SampleExact(connected, plan_name, sample, limit) ==
    LET all_scans == GetRecentScans(TRUE, limit).result.val
        by_plan == IF Given(plan_name)
                   THEN SelectSeq(all_scans, LAMBDA s : s.plan_name = plan_name.val)
                   ELSE all_scans
        filtered == IF Given(sample)
                    THEN SelectSeq(by_plan, LAMBDA s : s.sample = sample.val)
                    ELSE by_plan
    IN [connected |-> TRUE, result |-> Ok(Slice(filtered, limit))]

\* search_scans(plan_name, sample, limit)
SearchScans(connected, plan_name, sample, limit) ==
    LET all_scans == GetRecentScans(TRUE, limit).result.val
        by_plan == IF Given(plan_name)
                   THEN SelectSeq(all_scans, LAMBDA s : s.plan_name = plan_name.val)
                   ELSE all_scans
        filtered == IF Given(sample)
                    THEN SelectSeq(by_plan, LAMBDA s : Contains(s.sample, sample.val))
                    ELSE by_plan
    IN [connected |-> TRUE, result |-> Ok(Slice(filtered, limit))]

\* the filters a caller may pass: None, the empty string, or a text
PlanNameFilters ==
    {Absent, Some(<<>>), Some(kw_scan), Some(id_count), Some(id_list_scan),
     Some(id_my_plan)}
SampleFilters ==
    {Absent, Some(<<>>), Some(<<"s","a","m","p","l","e","_">>), Some(<<"_","0","0">>), Some(<<"0","0","4">>), Some(<<"5">>),
     Some(<<"r","e","f","e","r","e","n","c","e">>)}

----------------------------------------------------------------------------
(* The instrument server: GET /plans and POST /explain.                    *)

\* the scheduler's plans_allowed holds at most MaxPlans entries
MaxPlans == 2

id_rel_scan  == <<"r","e","l","_","s","c","a","n">>
id_grid_scan == <<"g","r","i","d","_","s","c","a","n">>
id_positions == <<"p","o","s","i","t","i","o","n","s">>
id_COUNT     == <<"C","O","U","N","T">>
id_question  == <<"W","h","a","t"," ","d","e","v","i","c","e","s"," ","a","r","e"," ","a","v","a","i","l","a","b","l","e","?">>

McpPlan(name, description, parameters, example) ==
    [name |-> name, description |-> description, parameters |-> parameters,
     module |-> "", example |-> example]

\* the standard plans GET /plans falls back to
StandardPlans ==
    <<McpPlan(id_count, <<"Take repeated measurements at current position">>,
              <<id_detectors, id_num, id_delay>>,
              <<"count([sim_det], num=1, delay=None)">>),
      McpPlan(kw_scan, <<"Continuous scan of a motor from start to stop position">>,
              <<id_detectors, kw_motor, id_start, id_stop, id_num>>,
              <<"scan([sim_det], sim_motor, -1, 1, 11)">>),
      McpPlan(id_list_scan, <<"Scan through a specific list of motor positions">>,
              <<id_detectors, kw_motor, id_positions>>,
              <<"list_scan([sim_det], sim_motor, [1, 2, 3, 4, 5])">>),
      McpPlan(id_rel_scan, <<"Relative scan from current motor position">>,
              <<id_detectors, kw_motor, id_start, id_stop, id_num>>,
              <<"rel_scan([sim_det], sim_motor, -1, 1, 11)">>),
      McpPlan(id_grid_scan, <<"2D grid scan with two motors">>,
              <<id_detectors, <<"m","o","t","o","r","1">>, <<"s","t","a","r","t","1">>, <<"s","t","o","p","1">>, <<"n","u","m","1">>,
                <<"m","o","t","o","r","2">>, <<"s","t","a","r","t","2">>, <<"s","t","o","p","2">>, <<"n","u","m","2">>>>,
              <<"grid_scan([sim_det], sim_motor, -1, 1, 3, sim_motor, -1, 1, 3)">>)>>

\* one scheduler plan in the server's format
McpFormatPlan(item) ==
    McpPlan(item.name,
            IF "description" \in DOMAIN item.info.fields
            THEN <<item.info.fields.description>>
            ELSE <<"Plan: ">> \o item.name,
            Get(item.info.fields, "parameters", <<>>),
            item.name \o <<"(...)">>)

\* GET /plans: the scheduler's plans, the standard plans when the scheduler
\* does not answer 200 or anything raises
McpGetPlans(http) ==
    IF http.raises THEN StandardPlans
    ELSE IF http.status # 200 THEN StandardPlans
    ELSE IF http.json.raised THEN StandardPlans
    ELSE LET plans_dict == http.json.val IN
         IF \E i \in 1..Len(plans_dict) : ~plans_dict[i].info.is_mapping
         THEN StandardPlans
         ELSE [i \in 1..Len(plans_dict) |-> McpFormatPlan(plans_dict[i])]

\* the device lines of the context, category after category
DeviceList(devices) ==
    LET all == devices.motors \o devices.detectors \o devices.other IN
    [i \in 1..Len(all) |-> all[i].name \o <<" (">> \o all[i].description \o <<")">>]

\* the context text built from the devices and the plans
McpContext(devices, plans) ==
    <<"Available devices: ">> \o Join(DeviceList(devices), ", ")
        \o <<"\nAvailable plans: ">>
        \o Join([i \in 1..Len(plans) |-> plans[i].name], ", ")

\* request.plan_name.lower() in [p.lower() for p in plans.keys()]
KnownPlan(plan_name, plans) ==
    \E i \in 1..Len(plans) : Lower(plans[i].name) = Lower(plan_name)

\* the canned explanations of the fallback
FallbackExplanations ==
    [n \in {kw_scan, id_count, id_list_scan, id_grid_scan} |->
        CASE n = kw_scan ->
               <<"The 'scan' plan performs a continuous scan by moving a motor from start to stop position while collecting data from detectors at regular intervals.">>
          [] n = id_count ->
               <<"The 'count' plan takes repeated measurements at the current position to improve counting statistics.">>
          [] n = id_list_scan ->
               <<"The 'list_scan' plan moves a motor to specific positions in a list and collects data at each position.">>
          [] OTHER ->
               <<"The 'grid_scan' plan performs a 2D scan by moving two motors in a grid pattern while collecting detector data.">>]

\* the fallback explanation; plans[plan_name.lower()] raises KeyError when
\* the plan is known under a name that is not all lower case
McpFallbackExplanation(plan_name, plans, context) ==
    IF KnownPlan(plan_name, plans)
    THEN LET found == SelectSeq(plans, LAMBDA p : p.name = Lower(plan_name)) IN
         IF found = <<>> THEN Raised("KeyError")
         ELSE Ok(Head(found).description \o <<"\n\nParameters: ">>
                 \o Join(Head(found).parameters, ", ")
                 \o <<"\n\nExample: ">> \o Head(found).example)
    ELSE IF Lower(plan_name) \in DOMAIN FallbackExplanations
    THEN Ok(FallbackExplanations[Lower(plan_name)])
    ELSE Ok(<<"The '">> \o plan_name \o <<"' is a Bluesky operation. ">> \o context)

\* the exchange with LMStudio: GET /v1/models, then POST /v1/chat/completions;
\* every failure in it raises into the fallback
McpAskLMStudio(models_http, post_http) ==
    IF models_http.raises THEN Raised("ClientError")
    ELSE IF models_http.status # 200 THEN Raised("Exception")
    ELSE IF post_http.raises THEN post_http.json
    ELSE IF post_http.status # 200 THEN Raised("Exception")
    ELSE IF post_http.json.raised THEN post_http.json
    ELSE LMStudioChatText(post_http.json.val)

\* a plausible slip: the fallback left out, a failed exchange propagates
McpExplainPlan_NoFallback(plan_name, devices_http, plans_http, models_http, post_http) ==
    LET devices == McpGetDevices(devices_http)
        plans == McpGetPlans(plans_http)
        answered == McpAskLMStudio(models_http, post_http)
    IN IF answered.raised THEN answered
       ELSE Ok([plan_name |-> plan_name, explanation |-> answered.val])

\* POST /explain: LMStudio's reply, or the fallback explanation
McpExplainPlan(plan_name, devices_http, plans_http, models_http, post_http) ==
    LET devices == McpGetDevices(devices_http)
        plans == McpGetPlans(plans_http)
        context == McpContext(devices, plans)
        answered == McpAskLMStudio(models_http, post_http)
        explanation == IF answered.raised
                       THEN McpFallbackExplanation(plan_name, plans, context)
                       ELSE answered
    IN IF explanation.raised THEN explanation
       ELSE Ok([plan_name |-> plan_name, explanation |-> explanation.val])

\* the plan names the scheduler may report and the names a request may carry
ReportedPlans ==
    {Descriptor(id_count, <<id_detectors, id_num>>, TRUE),
     Descriptor(id_CountScan, <<id_detectors, id_num>>, FALSE),
     Descriptor(id_my_plan, <<>>, TRUE),
     [name |-> id_my_plan, info |-> NotAMapping]}
RequestedPlanNames ==
    {id_count, id_COUNT, id_CountScan, <<"c","o","u","n","t","_","s","c","a","n">>, kw_scan, id_my_plan,
     id_unknown, id_question}
LMStudioReplies ==
    {[shape |-> "full", text |-> <<"The count plan reads the detectors.">>],
     [shape |-> "full", text |-> <<>>],
     [shape |-> "no choice", text |-> <<>>]}

----------------------------------------------------------------------------
(* One client object used by concurrent asyncio tasks.  A task runs        *)
(* without interruption from one await to the next; between two awaits of  *)
(* one task any other task may run.                                        *)

\* the tasks that use the client at the same time
MaxTasks == 2
\* the ClientSession objects created during one run
MaxSessions == 3

Tasks == 1..MaxTasks
ClientClasses == {"QServerClient", "LMStudioClient", "OllamaClient"}
TaskOps == {"connect", "disconnect", "request"}

IdleTask ==
    [op |-> "none", pc |-> "idle", session |-> 0, arrived |-> "none",
     result |-> "none"]

\* a task suspended in an HTTP exchange on the session it read from the client
Awaiting(op, pc, session) ==
    [op |-> op, pc |-> pc, session |-> session, arrived |-> "none",
     result |-> "none"]

\* a task that has returned
Returned(op, result) ==
    [op |-> op, pc |-> "done", session |-> 0, arrived |-> "none",
     result |-> result]

OpenSessions(sessions) == {s \in 1..Len(sessions) : sessions[s] = "open"}

\* self.session.get(...) / self.session.post(...) of a request, evaluated on
\* the client's session as it is now; the surrounding try turns an exception
\* into the operation's failure value (an empty list, an error text)
SendRequest(session, sessions) ==
    IF session = 0 THEN Returned("request", "no session")
    ELSE IF sessions[session] = "closed" THEN Returned("request", "closed session")
    ELSE Awaiting("request", "send", session)

\* what a task does once connect() has returned
AfterConnect(op, session, sessions) ==
    IF op = "connect" THEN Returned("connect", "returned")
    ELSE SendRequest(session, sessions)

\* is_connected()
ClientIsConnected(connected) == connected

----------------------------------------------------------------------------
(* The generative explanation path, served by the inference service.       *)

\* replies of one character less than, exactly and one more than PoorLength
ReplyBelow == <<"This plan moves a motor and reads every detector.">>
ReplyAtThreshold == <<"This plan moves one motor and reads each detector.">>
ReplyAbove == <<"This plan moves one motor and reads every detector.">>

\* what the backend generates for an explanation request
GenerativeReplies ==
    {[shape |-> "full", text |-> t] :
        t \in {<<>>, <<"A scan.">>, ReplyBelow, ReplyAtThreshold, ReplyAbove,
               <<" ">> \o ReplyAtThreshold \o <<"\n">>}}
    \cup {[shape |-> "no choice", text |-> <<>>]}

\* the clients LocalLLMService may hold: none when it was never initialised
ServiceClients == {"none"} \cup LocalProviders

\* the texts the inference layer returns in place of a completion
InferenceFailureTexts ==
    {NotInitialized, LMStudioGenerateError, LMStudioChatError,
     OllamaGenerateError, OllamaChatError}

----------------------------------------------------------------------------
(* process_query step by step: the tools a call executes.                  *)

\* a plausible slip: the branches tested one after the other without
\* returning, so that every matching branch runs its tool
RouterCalls_FallThrough(q) ==
    LET query_lower == Lower(q) IN
    (IF ContainsAny(query_lower, DeviceWords) THEN <<"list_devices">> ELSE <<>>)
    \o (IF ContainsAny(query_lower, PlanWords) THEN <<"list_plans">> ELSE <<>>)
    \o (IF Contains(query_lower, kw_last) /\ Contains(query_lower, kw_scan)
        THEN <<"get_last_scan">> ELSE <<>>)
    \o (IF Contains(query_lower, kw_explain) \/ Contains(query_lower, kw_what_does)
        THEN <<"explain_plan">> ELSE <<>>)
    \o (IF ContainsAny(query_lower, ScanActWords) THEN <<"generate_plan">> ELSE <<>>)

\* the tool methods _simulate_agent_response awaits for a query: the one of
\* the first matching branch, which then returns
RouterCalls(q) ==
    LET query_lower == Lower(q) IN
    IF ContainsAny(query_lower, DeviceWords) THEN <<"list_devices">>
    ELSE IF ContainsAny(query_lower, PlanWords) THEN <<"list_plans">>
    ELSE IF Contains(query_lower, kw_last) /\ Contains(query_lower, kw_scan)
    THEN <<"get_last_scan">>
    ELSE IF Contains(query_lower, kw_explain) \/ Contains(query_lower, kw_what_does)
    THEN <<"explain_plan">>
    ELSE IF ContainsAny(query_lower, ScanActWords) THEN <<"generate_plan">>
    ELSE <<>>

----------------------------------------------------------------------------
(* State machine.                                                          *)

Init ==
    /\ query = <<>>
    /\ frags = <<>>
    /\ response = NoResponse
    /\ plan = NoPlan
    /\ safe = <<>>
    /\ llm_provider = "openai"
    /\ ex_stage = "idle"
    /\ ex_source = <<>>
    /\ ex_context = NoContext
    /\ ex_chat = NotCalled
    /\ ex_text = NotCalled
    /\ ex_result = NotCalled
    /\ srv_status = "ok"
    /\ srv_api = "ok"
    /\ srv_allowed = <<>>
    /\ qs_connected = FALSE
    /\ qs_session = "none"
    /\ qs_call = NoCall
    /\ qs_result = NoResult
    /\ qs_lastConnect = "never"
    /\ qs_sawDisconnect = FALSE
    /\ inf_health = "ok"
    /\ inf_post = "ok"
    /\ inf_reply = [shape |-> "full", text |-> <<>>]
    /\ svc_client = "none"
    /\ llm_connected = FALSE
    /\ llm_session = "none"
    /\ llm_call = NoCall
    /\ llm_connect = "not run"
    /\ llm_result = NoResult
    /\ ag_initialized = FALSE
    /\ ag_query = <<>>
    /\ ag_reply = <<>>
    /\ ag_chat = NotCalled
    /\ ag_result = NoResult
    /\ ep_call = NoCall
    /\ ep_response = NoHttpResponse
    /\ ep_gateway = <<>>
    /\ db_connected = FALSE
    /\ rag_initialized = FALSE
    /\ rag_store = Absent
    /\ kb_files = <<>>
    /\ rag_call = NoCall
    /\ rag_result = NoResult
    /\ sch_plans = <<>>
    /\ pl_out = NoTrace
    /\ sch_devices = <<>>
    /\ mcp_out = NoTrace
    /\ db_call = NoCall
    /\ db_result = NoResult
    /\ cc_kind = "QServerClient"
    /\ cc_connected = FALSE
    /\ cc_session = 0
    /\ cc_sessions = <<>>
    /\ cc_tasks = [t \in Tasks |-> IdleTask]
    /\ pq_pc = "idle"
    /\ pq_tools = <<>>

\* the caller assembles the query text, fragment by fragment
TypeFragment ==
    \E f \in QueryFragments :
        /\ response = NoResponse
        /\ Len(frags) < MaxFrags
        /\ frags' = Append(frags, f)
        /\ query' = query \o f
        /\ UNCHANGED <<appVars, response, safetyVars, explainVars, gatewayVars, llmVars>>

\* one call of _simulate_agent_response on the assembled query
RouteQuery ==
    /\ response = NoResponse
    /\ response' = SimulateAgentResponse(query)
    /\ UNCHANGED <<appVars, query, frags, safetyVars, explainVars, gatewayVars, llmVars>>

\* the caller starts the next query
NewQuery ==
    /\ response # NoResponse
    /\ query' = <<>>
    /\ frags' = <<>>
    /\ response' = NoResponse
    /\ UNCHANGED <<appVars, safetyVars, explainVars, gatewayVars, llmVars>>

\* the caller fills in one key of the plan dictionary
SetPlanKey ==
    \E k \in PlanKeys \ DOMAIN plan :
        \E v \in PlanValue(k) :
            /\ safe = <<>>
            /\ plan' = plan @@ (k :> v)
            /\ UNCHANGED <<appVars, routerVars, safe, explainVars, gatewayVars, llmVars>>

\* one call of validate_plan_safety on the assembled dictionary
ValidatePlan ==
    /\ safe = <<>>
    /\ safe' = <<ValidatePlanSafety(plan)>>
    /\ UNCHANGED <<appVars, routerVars, plan, explainVars, gatewayVars, llmVars>>

\* the caller starts the next plan
NewPlan ==
    /\ safe # <<>>
    /\ plan' = NoPlan
    /\ safe' = <<>>
    /\ UNCHANGED <<appVars, routerVars, explainVars, gatewayVars, llmVars>>

\* a caller writes a plan source: a function definition, possibly garbled
WriteSource ==
    \E name \in PlanNames, ps \in ParamLists, body \in Bodies, m \in Malformations :
        /\ ex_stage = "idle"
        /\ ex_source' = Garble(RenderSource(name, ps, body), m)
        /\ ex_stage' = "source"
        /\ UNCHANGED <<appVars, routerVars, safetyVars, llm_provider, ex_context,
                       ex_chat, ex_text, ex_result, gatewayVars, llmVars>>

\* the request's context and the configured provider
ExplainRequest ==
    \E c \in Contexts, provider \in Providers :
        /\ ex_stage = "source"
        /\ ex_context' = c
        /\ llm_provider' = provider
        /\ ex_stage' = "request"
        /\ UNCHANGED <<appVars, routerVars, safetyVars, ex_source, ex_chat, ex_text, ex_result, gatewayVars, llmVars>>

\* one call of PlanExplainer.explain; the inference service answers as it may
ExplainCall ==
    \E chat \in (IF llm_provider \in LocalProviders THEN ServiceOutcomes ELSE {NotCalled}) :
      \E text \in (IF chat.raised THEN ServiceOutcomes ELSE {NotCalled}) :
        /\ ex_stage = "request"
        /\ ex_chat' = chat
        /\ ex_text' = text
        /\ ex_result' = Explain(ex_source, ex_context, llm_provider, chat, text)
        /\ ex_stage' = "done"
        /\ UNCHANGED <<appVars, routerVars, safetyVars, llm_provider, ex_source, ex_context, gatewayVars, llmVars>>

\* the caller starts the next explain request
ExplainReset ==
    /\ ex_stage = "done"
    /\ ex_stage' = "idle"
    /\ ex_source' = <<>>
    /\ ex_context' = NoContext
    /\ ex_chat' = NotCalled
    /\ ex_text' = NotCalled
    /\ ex_result' = NotCalled
    /\ llm_provider' = "openai"
    /\ UNCHANGED <<appVars, routerVars, safetyVars, gatewayVars, llmVars>>

\* the scheduler's /status endpoint changes its behaviour
ServerStatusMode ==
    \E m \in StatusModes \ {srv_status} :
        /\ qs_call[1] = "none" /\ ep_response[1] = "none"
        /\ srv_status' = m
        /\ UNCHANGED <<appVars, routerVars, safetyVars, explainVars, llmVars, srv_api, srv_allowed, clientVars>>

\* the scheduler's other endpoints change their behaviour
ServerApiMode ==
    \E m \in ApiModes \ {srv_api} :
        /\ qs_call[1] = "none" /\ ep_response[1] = "none"
        /\ srv_api' = m
        /\ UNCHANGED <<appVars, routerVars, safetyVars, explainVars, llmVars, srv_status, srv_allowed, clientVars>>

\* an entry is added to the scheduler's registry
RegisterItem ==
    \E name \in RegistryNames \ {srv_allowed[i].name : i \in 1..Len(srv_allowed)} :
        \E info \in InfosOf(name) :
            /\ qs_call[1] = "none" /\ ep_response[1] = "none"
            /\ Len(srv_allowed) < MaxItems
            /\ srv_allowed' = Append(srv_allowed, [name |-> name, info |-> info])
            /\ UNCHANGED <<appVars, routerVars, safetyVars, explainVars, llmVars, srv_status, srv_api, clientVars>>

\* the scheduler's registry is emptied
ClearRegistry ==
    /\ qs_call[1] = "none" /\ ep_response[1] = "none"
    /\ srv_allowed # <<>>
    /\ srv_allowed' = <<>>
    /\ UNCHANGED <<appVars, routerVars, safetyVars, explainVars, llmVars, srv_status, srv_api, clientVars>>

StatusHttp == Respond(srv_status, IdleStatus)
ApiHttp(body) == Respond(srv_api, body)
ThisClient == Client(qs_connected, qs_session)

\* a Gateway operation ran to its end: the client's new state and the result
Returns(call, out, connects) ==
    /\ qs_call' = call
    /\ qs_result' = ResultOf(call[1], out.result)
    /\ qs_connected' = out.client.connected
    /\ qs_session' = out.client.session
    /\ qs_lastConnect' = IF connects THEN ConnectOutcome(StatusHttp) ELSE qs_lastConnect
    /\ qs_sawDisconnect' = IF connects THEN FALSE ELSE qs_sawDisconnect
    /\ UNCHANGED <<appVars, routerVars, safetyVars, explainVars, llmVars, serverVars>>

ConnectCall ==
    /\ qs_call[1] = "none"
    /\ Returns(Call("connect", None), Outcome(Connect(ThisClient, StatusHttp), Ok(None)), TRUE)

DisconnectCall ==
    /\ qs_call[1] = "none"
    /\ qs_call' = Call("disconnect", None)
    /\ qs_result' = ResultOf("disconnect", Ok(None))
    /\ qs_connected' = Disconnect(ThisClient).connected
    /\ qs_session' = Disconnect(ThisClient).session
    /\ qs_sawDisconnect' = IF qs_session # "none" THEN TRUE ELSE qs_sawDisconnect
    /\ UNCHANGED <<appVars, routerVars, safetyVars, explainVars, llmVars, serverVars, qs_lastConnect>>

GetDevicesCall ==
    /\ qs_call[1] = "none"
    /\ Returns(Call("get_devices", None),
            GetDevices(ThisClient, StatusHttp, ApiHttp(srv_allowed)), ~qs_connected)

GetPlansCall ==
    /\ qs_call[1] = "none"
    /\ Returns(Call("get_plans", None),
            GetPlans(ThisClient, StatusHttp, ApiHttp(srv_allowed)), ~qs_connected)

GetPlanSourceCall ==
    /\ qs_call[1] = "none"
    /\ \E plan_name \in RegistryNames :
        Returns(Call("get_plan_source", plan_name),
                GetPlanSource(ThisClient, StatusHttp, ApiHttp(srv_allowed), plan_name),
                ~qs_connected)

SubmitPlanCall ==
    /\ qs_call[1] = "none"
    /\ \E plan_dict \in SubmittedPlans :
        Returns(Call("submit_plan", plan_dict),
                SubmitPlan(ThisClient, StatusHttp, ApiHttp(SubmitReply), plan_dict),
                ~qs_connected)

GetQueueStatusCall ==
    /\ qs_call[1] = "none"
    /\ \E body \in QueueBodies :
        Returns(Call("get_queue_status", None),
                GetQueueStatus(ThisClient, StatusHttp, ApiHttp(body)), ~qs_connected)

ClearQueueCall ==
    /\ qs_call[1] = "none"
    /\ Returns(Call("clear_queue", None),
            PostForBool(ThisClient, StatusHttp, ApiHttp(SubmitReply)), ~qs_connected)

RemoveQueueItemCall ==
    /\ qs_call[1] = "none"
    /\ \E uid \in ItemUids :
        Returns(Call("remove_queue_item", uid),
                PostForBool(ThisClient, StatusHttp, ApiHttp(SubmitReply)), ~qs_connected)

PauseRunEngineCall ==
    /\ qs_call[1] = "none"
    /\ Returns(Call("pause_run_engine", None),
            PostForBool(ThisClient, StatusHttp, ApiHttp(SubmitReply)), ~qs_connected)

ResumeRunEngineCall ==
    /\ qs_call[1] = "none"
    /\ Returns(Call("resume_run_engine", None),
            PostForBool(ThisClient, StatusHttp, ApiHttp(SubmitReply)), ~qs_connected)

GetEnvironmentStatusCall ==
    /\ qs_call[1] = "none"
    /\ Returns(Call("get_environment_status", None),
            GetEnvironmentStatus(ThisClient, StatusHttp), ~qs_connected)

\* the caller has the result and is ready for its next call
TakeResult ==
    /\ qs_call[1] # "none"
    /\ qs_call' = NoCall
    /\ qs_result' = NoResult
    /\ UNCHANGED <<appVars, routerVars, safetyVars, explainVars, llmVars, serverVars,
                   qs_connected, qs_session, qs_lastConnect, qs_sawDisconnect>>

\* the inference server's health endpoint changes its behaviour
InferenceHealthMode ==
    \E m \in StatusModes \ {inf_health} :
        /\ llm_call[1] = "none"
        /\ inf_health' = m
        /\ UNCHANGED <<appVars, routerVars, safetyVars, explainVars, gatewayVars,
                       inf_post, inf_reply, llmClientVars>>

\* the inference server's generation endpoints change their behaviour
InferencePostMode ==
    \E m \in ApiModes \ {inf_post} :
        /\ llm_call[1] = "none"
        /\ inf_post' = m
        /\ UNCHANGED <<appVars, routerVars, safetyVars, explainVars, gatewayVars,
                       inf_health, inf_reply, llmClientVars>>

\* the reply the model would generate grows by one segment
GenerateSegment ==
    \E seg \in ReplySegments :
        /\ llm_call[1] = "none"
        /\ inf_reply.shape = "full"
        /\ Len(inf_reply.text) < MaxSegments
        /\ inf_reply' = [inf_reply EXCEPT !.text = Append(@, seg)]
        /\ UNCHANGED <<appVars, routerVars, safetyVars, explainVars, gatewayVars,
                       inf_health, inf_post, llmClientVars>>

\* the inference server starts over with a reply of some shape
NewReply ==
    \E shape \in ReplyShapes :
        /\ llm_call[1] = "none"
        /\ inf_reply # [shape |-> shape, text |-> <<>>]
        /\ inf_reply' = [shape |-> shape, text |-> <<>>]
        /\ UNCHANGED <<appVars, routerVars, safetyVars, explainVars, gatewayVars,
                       inf_health, inf_post, llmClientVars>>

HealthHttp == Respond(inf_health, [version |-> "1"])
ThisLLMClient == Client(llm_connected, llm_session)

\* what the implicit connect() of a backend's generate or chat returned
ImplicitConnect(kind) ==
    IF kind \in LocalProviders /\ ~llm_connected
    THEN IF LLMConnect(ThisLLMClient, HealthHttp, HealthHttp).result.val
         THEN "true" ELSE "false"
    ELSE "not run"

\* an inference operation ran to its end
LLMReturns(call, out, connect) ==
    /\ llm_call' = call
    /\ llm_result' = ResultOf(call[1], out.result)
    /\ llm_connected' = out.client.connected
    /\ llm_session' = out.client.session
    /\ llm_connect' = connect
    /\ UNCHANGED <<appVars, routerVars, safetyVars, explainVars, gatewayVars, inferenceVars, svc_client>>

\* a service is built under a provider setting and initialized
InitializeCall ==
    /\ llm_call[1] = "none"
    /\ \E provider \in Providers :
         \E listing \in (IF provider = "ollama" THEN ModelListings ELSE {"listed"}) :
            LET out == Initialize(provider, HealthHttp, listing)
            IN /\ svc_client' = out.kind
               /\ llm_call' = Call("initialize", provider)
               /\ llm_result' = ResultOf("initialize", out.result)
               /\ llm_connected' = out.client.connected
               /\ llm_session' = out.client.session
               /\ llm_connect' = "not run"
               /\ UNCHANGED <<appVars, routerVars, safetyVars, explainVars, gatewayVars, inferenceVars>>

\* `service.client = client`: the service is handed a fresh client, or none
AssignClient ==
    \E kind \in (ClientKinds \cup {"none"}) \ {svc_client} :
        /\ llm_call[1] = "none"
        /\ svc_client' = kind
        /\ llm_connected' = FALSE
        /\ llm_session' = "none"
        /\ UNCHANGED <<appVars, routerVars, safetyVars, explainVars, gatewayVars, inferenceVars,
                       llm_call, llm_connect, llm_result>>

\* generate(prompt) on a backend client
GenerateCall ==
    /\ llm_call[1] = "none"
    /\ svc_client \in LocalProviders
    /\ LLMReturns(Call("generate", None),
                  ClientGenerate(svc_client, ThisLLMClient, HealthHttp, inf_post, inf_reply, Ok(<<>>)),
                  ImplicitConnect(svc_client))

\* chat(messages) on a backend client
ChatCall ==
    /\ llm_call[1] = "none"
    /\ svc_client \in LocalProviders
    /\ LLMReturns(Call("chat", None),
                  ClientChat(svc_client, ThisLLMClient, HealthHttp, inf_post, inf_reply, Ok(<<>>)),
                  ImplicitConnect(svc_client))

\* disconnect() on a backend client
LLMDisconnectCall ==
    /\ llm_call[1] = "none"
    /\ svc_client \in LocalProviders
    /\ LLMReturns(Call("disconnect", None),
                  Outcome(Disconnect(ThisLLMClient), Ok(<<>>)), "not run")

\* LocalLLMService.generate_text(prompt)
GenerateTextCall ==
    /\ llm_call[1] = "none"
    /\ \E other \in (IF svc_client = "other" THEN OtherClientOutcomes ELSE {Ok(<<>>)}) :
         LLMReturns(Call("generate_text", other),
                    GenerateText(svc_client, ThisLLMClient, HealthHttp, inf_post, inf_reply, other),
                    ImplicitConnect(svc_client))

\* LocalLLMService.generate_chat(messages)
GenerateChatCall ==
    /\ llm_call[1] = "none"
    /\ \E other \in (IF svc_client = "other" THEN OtherClientOutcomes ELSE {Ok(<<>>)}) :
         LLMReturns(Call("generate_chat", other),
                    GenerateChat(svc_client, ThisLLMClient, HealthHttp, inf_post, inf_reply, other),
                    ImplicitConnect(svc_client))

\* the caller has the result and is ready for its next call
LLMTakeResult ==
    /\ llm_call[1] # "none"
    /\ llm_call' = NoCall
    /\ llm_result' = NoResult
    /\ llm_connect' = "not run"
    /\ UNCHANGED <<appVars, routerVars, safetyVars, explainVars, gatewayVars, inferenceVars,
                   svc_client, llm_connected, llm_session>>

\* the deployment is configured with a provider
ConfigureProvider ==
    \E p \in Providers :
        /\ ag_result[1] = "none"
        /\ ag_query = <<>>
        /\ ag_reply = <<>>
        /\ p # llm_provider
        /\ llm_provider' = p
        /\ UNCHANGED <<appVars, routerVars, safetyVars, ex_stage, ex_source, ex_context,
                       ex_chat, ex_text, ex_result, gatewayVars, llmVars>>

\* the user writes a query
AskQuery ==
    \E q \in AgentQueries :
        /\ ag_result[1] = "none"
        /\ ag_query = <<>>
        /\ ag_query' = q
        /\ UNCHANGED <<notAgentVars, ag_initialized, ag_reply, ag_chat, ag_result>>

\* the inference service's answer to the next chat request grows by a fragment
ReplyFragment ==
    \E f \in ReplyFragments :
        /\ ag_result[1] = "none"
        /\ pq_pc = "idle"
        /\ Len(ag_reply) < MaxReplyFrags
        /\ ag_reply' = Append(ag_reply, f)
        /\ UNCHANGED <<notAgentVars, ag_initialized, ag_query, ag_chat, ag_result>>

\* one call of process_query: initialisation on first use, then the path the
\* provider selects
ProcessQueryCall ==
    \E setup_raises \in BOOLEAN :
        \E chat \in ChatOutcomes(Concat(ag_reply)) :
            /\ ag_result[1] = "none"
            /\ ag_initialized' = IF ag_initialized THEN TRUE ELSE AgentInitialize(setup_raises)
            /\ ag_chat' = IF llm_provider \in LocalProviders THEN chat ELSE NotCalled
            /\ ag_result' = ResultOf("process_query", ProcessQuery(ag_query, llm_provider, chat))
            /\ UNCHANGED <<notAgentVars, ag_query, ag_reply>>

\* the caller takes the response; the agent keeps its initialisation flag
AgentTakeResult ==
    /\ ag_result[1] # "none"
    /\ ag_query' = <<>>
    /\ ag_reply' = <<>>
    /\ ag_chat' = NotCalled
    /\ ag_result' = NoResult
    /\ UNCHANGED <<notAgentVars, ag_initialized>>

ThisEngine == Engine(rag_initialized, rag_store)

\* what a handler's Gateway calls leave in the client
GatewayAfter(h) ==
    LET connects == h.calls # <<>> /\ ~qs_connected IN
    /\ qs_connected' = h.client.connected
    /\ qs_session' = h.client.session
    /\ qs_lastConnect' = IF connects THEN ConnectOutcome(StatusHttp) ELSE qs_lastConnect
    /\ qs_sawDisconnect' = IF connects THEN FALSE ELSE qs_sawDisconnect

\* a request was served: the handler ran and the application answered
Answer(endpoint, arg, h, valid) ==
    /\ ep_call' = Call(endpoint, arg)
    /\ ep_response' = Serve(endpoint, h.result, valid)
    /\ ep_gateway' = h.calls
    /\ GatewayAfter(h)

\* GET /devices; the device search it runs on the side initialises the
\* knowledge base on first use
GetDevicesRequest ==
    /\ ep_response[1] = "none"
    /\ LET h == DevicesHandler(ThisClient, StatusHttp, ApiHttp(srv_allowed))
           rag == SearchDevices(ThisEngine, kb_files, <<"a","l","l"," ","d","e","v","i","c","e","s">>).engine
       IN /\ Answer("/devices", None, h,
                    \A i \in 1..Len(h.result.val) : ValidDeviceResponse(h.result.val[i]))
          /\ rag_initialized' = rag.initialized
          /\ rag_store' = rag.store
    /\ UNCHANGED <<outsideApiVars, db_connected, kb_files>>

\* GET /plans; one plan search for every plan listed
GetPlansRequest ==
    /\ ep_response[1] = "none"
    /\ LET h == PlansHandler(ThisClient, StatusHttp, ApiHttp(srv_allowed),
                             ThisEngine, kb_files)
           rag == IF h.result.val # <<>>
                  THEN SearchPlans(ThisEngine, kb_files, h.result.val[1].name).engine
                  ELSE ThisEngine
       IN /\ Answer("/plans", None, h,
                    \A i \in 1..Len(h.result.val) : ValidPlanResponse(h.result.val[i]))
          /\ rag_initialized' = rag.initialized
          /\ rag_store' = rag.store
    /\ UNCHANGED <<outsideApiVars, db_connected, kb_files>>

\* GET /last_scan
LastScanRequest ==
    /\ ep_response[1] = "none"
    /\ LET store == DatabrokerGetLastScan(db_connected)
           out == LastScanHandler(store)
       IN /\ Answer("/last_scan", None, Handled(ThisClient, <<>>, out),
                    IF out.raised THEN TRUE ELSE ValidScanMetadata(out.val))
          /\ db_connected' = store.connected
    /\ UNCHANGED <<outsideApiVars, ragVars>>

\* the inputs a placeholder endpoint takes
PlaceholderInputs(endpoint) ==
    CASE endpoint = "/submit_plan" -> SubmittedPlans
      [] endpoint = "/queue/item" -> ItemUids \cup {"no-such-item"}
      [] OTHER -> {None}

\* one request to a placeholder endpoint
PlaceholderRequest ==
    \E endpoint \in Placeholders :
        \E arg \in PlaceholderInputs(endpoint) :
            /\ ep_response[1] = "none"
            /\ Answer(endpoint, arg,
                      PlaceholderHandler(endpoint, ThisClient, StatusHttp,
                                         ApiHttp(Mapping(<<>>))),
                      TRUE)
            /\ UNCHANGED <<outsideApiVars, db_connected, ragVars>>

\* POST /explain: the body is validated, then handled
PostExplain ==
    \E body \in ExplainBodies, none_validated \in BOOLEAN :
      \E chat \in (IF llm_provider \in LocalProviders THEN ServiceOutcomes ELSE {NotCalled}) :
        \E text \in (IF chat.raised THEN ServiceOutcomes ELSE {NotCalled}) :
          /\ ep_response[1] = "none"
          /\ LET request == ValidateExplainRequest(body, none_validated)
                 h == IF request.raised
                      THEN Handled(ThisClient, <<>>, HttpError(422, "validation error"))
                      ELSE ExplainPlanHandler(body, ThisClient, StatusHttp,
                                              ApiHttp(srv_allowed), llm_provider, chat, text)
             IN Answer("/explain", body, h, TRUE)
          /\ UNCHANGED <<outsideApiVars, db_connected, ragVars>>

\* the client takes the response
TakeResponse ==
    /\ ep_response[1] # "none"
    /\ ep_call' = NoCall
    /\ ep_response' = NoHttpResponse
    /\ ep_gateway' = <<>>
    /\ UNCHANGED <<outsideApiVars, clientVars, db_connected, ragVars>>

\* the scheduler's plan registry comes to hold one descriptor
DeliverPlan ==
    \E name \in PlanNames, ps \in DeliveredLists, described \in BOOLEAN :
        /\ pl_out[1] = "none"
        /\ sch_plans' = <<Descriptor(name, ps, described)>>
        /\ UNCHANGED <<notPipeVars, pl_out>>

\* POST /explain {plan_name}, with the template explainer configured and the
\* scheduler answering
ExplainByName ==
    \E plan_name \in {id_count} \cup {sch_plans[i].name : i \in 1..Len(sch_plans)} :
        /\ pl_out[1] = "none"
        /\ pl_out' = <<"explain",
                       ExplainTrace(plan_name, Client(TRUE, "open"),
                                    Respond("ok", IdleStatus), Respond("ok", sch_plans),
                                    "openai", NotCalled, NotCalled)>>
        /\ UNCHANGED <<notPipeVars, sch_plans>>

\* GET /instrument/plans/detailed
PlansDetailedRequest ==
    \E mode \in {"ok", "error"}, available \in DeviceChoices :
        /\ pl_out[1] = "none"
        /\ pl_out' = <<"plans_detailed",
                       [available |-> available,
                        plans |-> PlansDetailed(Respond(mode, sch_plans), available)]>>
        /\ UNCHANGED <<notPipeVars, sch_plans>>

\* the caller takes the answer
TakeTrace ==
    /\ pl_out[1] # "none"
    /\ pl_out' = NoTrace
    /\ UNCHANGED <<notPipeVars, sch_plans>>

\* the scheduler comes to allow one more device
AllowDevice ==
    \E name \in DeviceNames :
      \E info \in DeviceInfosOf(name) :
        /\ mcp_out[1] = "none"
        /\ Len(sch_devices) < MaxDevices
        /\ \A i \in 1..Len(sch_devices) : sch_devices[i].name # name
        /\ sch_devices' = Append(sch_devices, [name |-> name, info |-> info])
        /\ UNCHANGED <<notMcpVars, mcp_out>>

\* the scheduler's devices are withdrawn
WithdrawDevices ==
    /\ mcp_out[1] = "none"
    /\ sch_devices # <<>>
    /\ sch_devices' = <<>>
    /\ UNCHANGED <<notMcpVars, mcp_out>>

\* GET /devices of the instrument server
McpDevicesRequest ==
    \E mode \in ApiModes :
        /\ mcp_out[1] = "none"
        /\ mcp_out' = <<"devices",
                        [mode |-> mode,
                         devices |-> McpGetDevices(Respond(mode, sch_devices))]>>
        /\ UNCHANGED <<notMcpVars, sch_devices>>

\* the devices examples are built from
AvailableDevicesRequest ==
    \E mode \in ApiModes :
        /\ mcp_out[1] = "none"
        /\ mcp_out' = <<"available_devices",
                        [mode |-> mode,
                         devices |-> AvailableDevicesForPlans(Respond(mode, sch_devices))]>>
        /\ UNCHANGED <<notMcpVars, sch_devices>>

\* the caller takes the answer
McpTakeAnswer ==
    /\ mcp_out[1] # "none"
    /\ mcp_out' = NoTrace
    /\ UNCHANGED <<notMcpVars, sch_devices>>

\* RAGEngine.initialize(): whenever it is called, the store starts afresh
RagInitializeCall ==
    /\ rag_result[1] = "none"
    /\ LET e == RagInitialize(ThisEngine, kb_files) IN
        /\ rag_initialized' = e.initialized
        /\ rag_store' = e.store
    /\ rag_call' = Call("initialize", <<>>)
    /\ rag_result' = ResultOf("initialize", Ok(None))
    /\ UNCHANGED <<notRagVars, kb_files>>

\* what a RAGEngine operation leaves behind
RagReturns(call, out) ==
    /\ rag_call' = call
    /\ rag_result' = ResultOf(call[1], out.result)
    /\ rag_initialized' = out.engine.initialized
    /\ rag_store' = out.engine.store
    /\ UNCHANGED <<notRagVars, kb_files>>

\* RAGEngine.add_document(content, metadata)
AddDocumentCall ==
    \E content \in AddedContents :
        /\ rag_result[1] = "none"
        /\ rag_store.some => Len(rag_store.val) < MaxDocuments
        /\ RagReturns(Call("add_document", [content |-> content]),
                      AddDocument(ThisEngine, content, AddedMetadata))

\* RAGEngine.search(query, limit)
SearchCall ==
    \E text \in SearchQueries, limit \in SearchLimits :
        /\ rag_result[1] = "none"
        /\ RagReturns(Call("search", [text |-> text, limit |-> limit]),
                      Search(ThisEngine, kb_files, text, limit, None))

\* RAGEngine.search_devices(query)
SearchDevicesCall ==
    \E text \in SearchQueries :
        /\ rag_result[1] = "none"
        /\ RagReturns(Call("search_devices", [text |-> text]),
                      SearchDevices(ThisEngine, kb_files, text))

\* RAGEngine.search_plans(query)
SearchPlansCall ==
    \E text \in SearchQueries :
        /\ rag_result[1] = "none"
        /\ RagReturns(Call("search_plans", [text |-> text]),
                      SearchPlans(ThisEngine, kb_files, text))

\* the caller takes the result
RagTakeResult ==
    /\ rag_result[1] # "none"
    /\ rag_call' = NoCall
    /\ rag_result' = NoResult
    /\ UNCHANGED <<notRagVars, ragVars>>

\* what a DatabrokerClient operation leaves behind
DbReturns(call, out) ==
    /\ db_call' = call
    /\ db_result' = ResultOf(call[1], out.result)
    /\ db_connected' = out.connected
    /\ UNCHANGED <<notDbVars, ep_call, ep_response, ep_gateway>>

\* DatabrokerClient.get_recent_scans(limit)
GetRecentScansCall ==
    \E limit \in 0..MaxLimit :
        /\ db_result[1] = "none"
        /\ DbReturns(Call("get_recent_scans", [limit |-> limit]),
                     GetRecentScans(db_connected, limit))

\* DatabrokerClient.search_scans(plan_name=..., sample=..., limit=...)
SearchScansCall ==
    \E plan_name \in PlanNameFilters, sample \in SampleFilters, limit \in 0..MaxLimit :
        /\ db_result[1] = "none"
        /\ DbReturns(Call("search_scans",
                          [plan_name |-> plan_name, sample |-> sample, limit |-> limit]),
                     SearchScans(db_connected, plan_name, sample, limit))

\* DatabrokerClient.disconnect()
DbDisconnectCall ==
    /\ db_result[1] = "none"
    /\ db_connected
    /\ db_connected' = FALSE
    /\ UNCHANGED <<notDbVars, ep_call, ep_response, ep_gateway, db_call, db_result>>

\* the caller takes the result
DbTakeResult ==
    /\ db_result[1] # "none"
    /\ db_call' = NoCall
    /\ db_result' = NoResult
    /\ UNCHANGED <<notDbVars, apiVars>>

\* the scheduler comes to allow one more plan
AllowPlan ==
    \E item \in ReportedPlans :
        /\ mcp_out[1] = "none"
        /\ pl_out[1] = "none"
        /\ Len(sch_plans) < MaxPlans
        /\ \A i \in 1..Len(sch_plans) : sch_plans[i].name # item.name
        /\ sch_plans' = Append(sch_plans, item)
        /\ UNCHANGED <<notPipeVars, pl_out>>

\* the scheduler's plans are withdrawn
WithdrawPlans ==
    /\ mcp_out[1] = "none"
    /\ pl_out[1] = "none"
    /\ sch_plans # <<>>
    /\ sch_plans' = <<>>
    /\ UNCHANGED <<notPipeVars, pl_out>>

\* POST /explain of the instrument server
McpExplainRequest ==
    \E plan_name \in RequestedPlanNames, api \in {"ok", "error", "refused"},
       models \in {"ok", "unavailable", "refused"}, post \in ApiModes,
       reply \in LMStudioReplies :
        /\ mcp_out[1] = "none"
        /\ mcp_out' =
               <<"/explain",
                 [plan_name |-> plan_name, api |-> api, models |-> models,
                  post |-> post, reply |-> reply,
                  answer |->
                      Serve("/explain",
                            McpExplainPlan(plan_name, Respond(api, sch_devices),
                                           Respond(api, sch_plans),
                                           Respond(models, <<>>),
                                           Respond(post, LMStudioChatBody(reply))),
                            TRUE)]>>
        /\ UNCHANGED <<notMcpVars, sch_devices>>

\* a client object is constructed: no session, not connected
NewClient ==
    \E kind \in ClientClasses :
        /\ \A t \in Tasks : cc_tasks[t].pc = "idle"
        /\ cc_kind' = kind
        /\ cc_connected' = FALSE
        /\ cc_session' = 0
        /\ cc_sessions' = <<>>
        /\ UNCHANGED <<notRaceVars, cc_tasks>>

\* connect() up to its first await: a new ClientSession replaces the
\* client's session, and the probe is sent on it
StartConnect ==
    \E t \in Tasks :
        /\ cc_tasks[t].pc = "idle"
        /\ Len(cc_sessions) < MaxSessions
        /\ cc_sessions' = Append(cc_sessions, "open")
        /\ cc_session' = Len(cc_sessions) + 1
        /\ cc_tasks' = [cc_tasks EXCEPT ![t] =
                            Awaiting("connect", "probe", Len(cc_sessions) + 1)]
        /\ UNCHANGED <<notRaceVars, cc_kind, cc_connected>>

\* an operation of the client up to its first await: it connects when the
\* flag is unset, otherwise it sends on the client's session
StartRequest ==
    \E t \in Tasks :
        /\ cc_tasks[t].pc = "idle"
        /\ IF ~cc_connected
           THEN /\ Len(cc_sessions) < MaxSessions
                /\ cc_sessions' = Append(cc_sessions, "open")
                /\ cc_session' = Len(cc_sessions) + 1
                /\ cc_tasks' = [cc_tasks EXCEPT ![t] =
                                    Awaiting("request", "probe", Len(cc_sessions) + 1)]
           ELSE /\ cc_tasks' = [cc_tasks EXCEPT ![t] =
                                    SendRequest(cc_session, cc_sessions)]
                /\ UNCHANGED <<cc_session, cc_sessions>>
        /\ UNCHANGED <<notRaceVars, cc_kind, cc_connected>>

\* disconnect() up to the end of session.close(): the session is closed;
\* close() either returns at once, and the flag is cleared in the same step,
\* or suspends the task before the flag is cleared
StartDisconnect ==
    \E t \in Tasks, suspends \in BOOLEAN :
        /\ cc_tasks[t].pc = "idle"
        /\ IF cc_session = 0
           THEN /\ ~suspends
                /\ cc_tasks' = [cc_tasks EXCEPT ![t] = Returned("disconnect", "returned")]
                /\ UNCHANGED <<cc_connected, cc_sessions>>
           ELSE /\ cc_sessions' = [cc_sessions EXCEPT ![cc_session] = "closed"]
                /\ IF suspends
                   THEN /\ cc_tasks' = [cc_tasks EXCEPT ![t] =
                                            [Awaiting("disconnect", "closing", cc_session)
                                                EXCEPT !.arrived = "closed"]]
                        /\ UNCHANGED cc_connected
                   ELSE /\ cc_tasks' = [cc_tasks EXCEPT ![t] =
                                            Returned("disconnect", "returned")]
                        /\ cc_connected' = FALSE
        /\ UNCHANGED <<notRaceVars, cc_kind, cc_session>>

\* the server's answer to a suspended exchange arrives and the task becomes
\* ready to run; an exchange whose session was closed meanwhile fails
ResponseArrives ==
    \E t \in Tasks :
        /\ cc_tasks[t].pc \in {"probe", "test", "send"}
        /\ cc_tasks[t].arrived = "none"
        /\ \E outcome \in IF cc_sessions[cc_tasks[t].session] = "closed"
                           THEN {"raise"} ELSE {"ok", "unavailable", "raise"} :
              cc_tasks' = [cc_tasks EXCEPT ![t].arrived = outcome]
        /\ UNCHANGED <<notRaceVars, cc_kind, cc_connected, cc_session, cc_sessions>>

\* connect() resumes with the probe's answer: 200 sets the flag, an exception
\* clears it; on another status QServerClient returns with the flag as it
\* was and a LocalLLMClient goes on to _test_connection on the client's
\* session
ResumeProbe ==
    \E t \in Tasks :
        LET task == cc_tasks[t]
            tests == cc_kind # "QServerClient" /\ task.arrived = "unavailable"
        IN
        /\ task.pc = "probe"
        /\ task.arrived # "none"
        /\ cc_connected' = CASE task.arrived = "ok" -> TRUE
                             [] task.arrived = "raise" -> FALSE
                             [] OTHER -> cc_connected
        /\ cc_tasks' = [cc_tasks EXCEPT ![t] =
               IF tests
               THEN IF cc_sessions[cc_session] = "closed"
                    THEN AfterConnect(task.op, cc_session, cc_sessions)
                    ELSE Awaiting(task.op, "test", cc_session)
               ELSE AfterConnect(task.op, cc_session, cc_sessions)]
        /\ UNCHANGED <<notRaceVars, cc_kind, cc_session, cc_sessions>>

\* connect() of a LocalLLMClient resumes with the answer to _test_connection:
\* 200 sets the flag, anything else leaves it
ResumeTest ==
    \E t \in Tasks :
        LET task == cc_tasks[t] IN
        /\ task.pc = "test"
        /\ task.arrived # "none"
        /\ cc_connected' = (cc_connected \/ task.arrived = "ok")
        /\ cc_tasks' = [cc_tasks EXCEPT ![t] =
                            AfterConnect(task.op, cc_session, cc_sessions)]
        /\ UNCHANGED <<notRaceVars, cc_kind, cc_session, cc_sessions>>

\* the operation resumes with the answer to its own exchange and returns
ResumeSend ==
    \E t \in Tasks :
        LET task == cc_tasks[t] IN
        /\ task.pc = "send"
        /\ task.arrived # "none"
        /\ cc_tasks' = [cc_tasks EXCEPT ![t] =
                            Returned("request",
                                     IF task.arrived = "ok" THEN "answered"
                                     ELSE "failed")]
        /\ UNCHANGED <<notRaceVars, cc_kind, cc_connected, cc_session, cc_sessions>>

\* disconnect() resumes after session.close() and clears the flag
ResumeDisconnect ==
    \E t \in Tasks :
        /\ cc_tasks[t].pc = "closing"
        /\ cc_connected' = FALSE
        /\ cc_tasks' = [cc_tasks EXCEPT ![t] = Returned("disconnect", "returned")]
        /\ UNCHANGED <<notRaceVars, cc_kind, cc_session, cc_sessions>>

\* the caller takes what the operation returned
TaskReturns ==
    \E t \in Tasks :
        /\ cc_tasks[t].pc = "done"
        /\ cc_tasks' = [cc_tasks EXCEPT ![t] = IdleTask]
        /\ UNCHANGED <<notRaceVars, cc_kind, cc_connected, cc_session, cc_sessions>>

\* a caller writes the source of a plan, intact or without its colon
WritePlanSource ==
    \E name \in {kw_scan, id_count, id_my_plan}, m \in {"intact", "colon"} :
        /\ ex_stage = "idle"
        /\ ex_source' = Garble(RenderSource(name, <<id_detectors, id_num>>,
                                            <<DocStmt>> \o MoveBody), m)
        /\ ex_stage' = "source"
        /\ UNCHANGED <<appVars, routerVars, safetyVars, llm_provider, ex_context,
                       ex_chat, ex_text, ex_result, gatewayVars, llmVars>>

\* one call of PlanExplainer.explain whose chat request goes through
\* LocalLLMService.generate_chat to the backend
GenerativeExplainCall ==
    \E kind \in ServiceClients, health \in StatusModes, post \in ApiModes,
       reply \in GenerativeReplies :
        LET chat == IF llm_provider \in LocalProviders
                    THEN GenerateChat(kind, Client(FALSE, "none"),
                                      Respond(health, [version |-> "1"]),
                                      post, reply, Ok(<<>>)).result
                    ELSE NotCalled
        IN
        /\ ex_stage = "request"
        /\ ex_chat' = chat
        /\ ex_text' = NotCalled
        /\ ex_result' = Explain(ex_source, ex_context, llm_provider, chat, NotCalled)
        /\ ex_stage' = "done"
        /\ UNCHANGED <<appVars, routerVars, safetyVars, llm_provider, ex_source,
                       ex_context, gatewayVars, llmVars>>

\* process_query is entered: initialisation on first use, then the path
\* the provider selects
PqStart ==
    \E setup_raises \in BOOLEAN :
        /\ pq_pc = "idle"
        /\ ag_result[1] = "none"
        /\ ag_query # <<>>
        /\ ag_initialized' = IF ag_initialized THEN TRUE ELSE AgentInitialize(setup_raises)
        /\ pq_pc' = IF llm_provider \in LocalProviders THEN "chat" ELSE "route"
        /\ pq_tools' = <<>>
        /\ UNCHANGED <<notStepVars, ag_query, ag_reply, ag_chat, ag_result>>

\* _process_with_local_llm: generate_chat returns the reply or raises; an
\* exception leads to the keyword router
PqChatReturns ==
    \E chat \in ChatOutcomes(Concat(ag_reply)) :
        /\ pq_pc = "chat"
        /\ ag_chat' = chat
        /\ pq_pc' = IF chat.raised THEN "route" ELSE "parse"
        /\ UNCHANGED <<notStepVars, ag_initialized, ag_query, ag_reply, ag_result, pq_tools>>

\* the reply is classified; without an action the reply is the response
PqParse ==
    /\ pq_pc = "parse"
    /\ IF ParseActionFromResponse(ag_chat.val) = None
       THEN /\ ag_result' = ResultOf("process_query",
                                     ProcessQuery(ag_query, llm_provider, ag_chat))
            /\ pq_pc' = "done"
       ELSE /\ pq_pc' = "tool"
            /\ UNCHANGED ag_result
    /\ UNCHANGED <<notStepVars, ag_initialized, ag_query, ag_reply, ag_chat, pq_tools>>

\* _execute_tool_action runs the tool of the classified action and the
\* response is returned
PqExecuteTool ==
    /\ pq_pc = "tool"
    /\ pq_tools' = Append(pq_tools, ParseActionFromResponse(ag_chat.val))
    /\ ag_result' = ResultOf("process_query", ProcessQuery(ag_query, llm_provider, ag_chat))
    /\ pq_pc' = "done"
    /\ UNCHANGED <<notStepVars, ag_initialized, ag_query, ag_reply, ag_chat>>

\* _simulate_agent_response runs, as the configured path or as the fallback
PqRoute ==
    /\ pq_pc = "route"
    /\ pq_tools' = pq_tools \o RouterCalls(ag_query)
    /\ ag_result' = ResultOf("process_query", ProcessQuery(ag_query, llm_provider, ag_chat))
    /\ pq_pc' = "done"
    /\ UNCHANGED <<notStepVars, ag_initialized, ag_query, ag_reply, ag_chat>>

\* the caller takes the response
PqReturn ==
    /\ pq_pc = "done"
    /\ pq_pc' = "idle"
    /\ pq_tools' = <<>>
    /\ ag_query' = <<>>
    /\ ag_reply' = <<>>
    /\ ag_chat' = NotCalled
    /\ ag_result' = NoResult
    /\ UNCHANGED <<notStepVars, ag_initialized>>

NextRouter == TypeFragment \/ RouteQuery \/ NewQuery
SpecRouter == Init /\ [][NextRouter]_vars

NextSafety == SetPlanKey \/ ValidatePlan \/ NewPlan
SpecSafety == Init /\ [][NextSafety]_vars

NextExplain == WriteSource \/ ExplainRequest \/ ExplainCall \/ ExplainReset
SpecExplain == Init /\ [][NextExplain]_vars

NextGateway ==
    \/ ServerStatusMode \/ ServerApiMode \/ RegisterItem \/ ClearRegistry
    \/ ConnectCall \/ DisconnectCall
    \/ GetDevicesCall \/ GetPlansCall \/ GetPlanSourceCall
    \/ SubmitPlanCall \/ GetQueueStatusCall
    \/ ClearQueueCall \/ RemoveQueueItemCall
    \/ PauseRunEngineCall \/ ResumeRunEngineCall
    \/ GetEnvironmentStatusCall \/ TakeResult
SpecGateway == Init /\ [][NextGateway]_vars

NextLLM ==
    \/ InferenceHealthMode \/ InferencePostMode \/ GenerateSegment \/ NewReply
    \/ InitializeCall \/ AssignClient
    \/ GenerateCall \/ ChatCall \/ LLMDisconnectCall
    \/ GenerateTextCall \/ GenerateChatCall \/ LLMTakeResult
SpecLLM == Init /\ [][NextLLM]_vars

NextAgent ==
    \/ ConfigureProvider \/ AskQuery \/ ReplyFragment
    \/ ProcessQueryCall \/ AgentTakeResult
SpecAgent == Init /\ [][NextAgent]_vars

NextApi ==
    \/ ServerStatusMode \/ ServerApiMode \/ RegisterItem \/ ClearRegistry
    \/ GetDevicesRequest \/ GetPlansRequest \/ LastScanRequest
    \/ PlaceholderRequest \/ TakeResponse
SpecApi == Init /\ [][NextApi]_vars

NextExplainApi ==
    \/ ServerStatusMode \/ ServerApiMode \/ RegisterItem \/ ClearRegistry
    \/ PostExplain \/ TakeResponse
SpecExplainApi == Init /\ [][NextExplainApi]_vars

NextPipeline == DeliverPlan \/ ExplainByName \/ PlansDetailedRequest \/ TakeTrace
SpecPipeline == Init /\ [][NextPipeline]_vars

NextMcp ==
    \/ AllowDevice \/ WithdrawDevices
    \/ McpDevicesRequest \/ AvailableDevicesRequest \/ McpTakeAnswer
SpecMcp == Init /\ [][NextMcp]_vars

NextRag ==
    \/ RagInitializeCall \/ AddDocumentCall
    \/ SearchCall \/ SearchDevicesCall \/ SearchPlansCall \/ RagTakeResult
SpecRag == Init /\ [][NextRag]_vars

NextDatabroker ==
    GetRecentScansCall \/ SearchScansCall \/ DbDisconnectCall \/ DbTakeResult
SpecDatabroker == Init /\ [][NextDatabroker]_vars

NextMcpExplain ==
    \/ AllowPlan \/ WithdrawPlans
    \/ McpExplainRequest \/ McpTakeAnswer
SpecMcpExplain == Init /\ [][NextMcpExplain]_vars

NextRace ==
    \/ NewClient \/ StartConnect \/ StartRequest \/ StartDisconnect
    \/ ResponseArrives \/ ResumeProbe \/ ResumeTest \/ ResumeSend
    \/ ResumeDisconnect \/ TaskReturns
SpecRace == Init /\ [][NextRace]_vars

NextGenerative ==
    WritePlanSource \/ ExplainRequest \/ GenerativeExplainCall \/ ExplainReset
SpecGenerative == Init /\ [][NextGenerative]_vars

NextProcess ==
    \/ ConfigureProvider \/ AskQuery \/ ReplyFragment
    \/ PqStart \/ PqChatReturns \/ PqParse \/ PqExecuteTool \/ PqRoute \/ PqReturn
SpecProcess == Init /\ [][NextProcess]_vars

----------------------------------------------------------------------------
(* Properties of the Action Router.                                        *)

\* f spells keyword w, letter for letter, in any mix of upper and lower case
SpellsIgnoringCase(f, w) ==
    /\ Len(f) = Len(w)
    /\ \A i \in 1..Len(w) :
          \/ f[i] = w[i]
          \/ \E k \in 1..Len(LowerAlpha) : LowerAlpha[k] = w[i] /\ UpperAlpha[k] = f[i]

\* the query was assembled with a fragment that spells one of the words
TypedOneOf(words) ==
    \E i \in 1..Len(frags) : \E w \in words : SpellsIgnoringCase(frags[i], w)

Routed == response # NoResponse

\* the branch the fixed priority order selects for the lowercased query
FirstMatchingBranch(q) ==
    CASE ContainsAny(q, DeviceWords) -> "list_devices"
      [] ~ContainsAny(q, DeviceWords) /\ ContainsAny(q, PlanWords) -> "list_plans"
      [] ~ContainsAny(q, DeviceWords \cup PlanWords)
           /\ Contains(q, kw_last) /\ Contains(q, kw_scan) -> "get_last_scan"
      [] ~ContainsAny(q, DeviceWords \cup PlanWords)
           /\ ~(Contains(q, kw_last) /\ Contains(q, kw_scan))
           /\ ContainsAny(q, ExplainWords) -> "explain_plan"
      [] ~ContainsAny(q, DeviceWords \cup PlanWords \cup ExplainWords)
           /\ ~(Contains(q, kw_last) /\ Contains(q, kw_scan))
           /\ ContainsAny(q, ScanActWords) -> "generate_plan"
      [] OTHER -> None

\* C1: the router answers with the first matching branch of the order
\* device -> plan -> last+scan -> explain -> scan-action -> default, matching
\* case-insensitively by substring; a query assembled with a device keyword
\* and a plan keyword, in any letter case, is routed to list_devices.
C1_RouterFirstMatch ==
    Routed =>
        /\ response.action_taken = FirstMatchingBranch(Lower(query))
        /\ (TypedOneOf(DeviceWords) /\ TypedOneOf(PlanWords)
              => response.action_taken = "list_devices")
        /\ (~TypedOneOf(DeviceWords) /\ TypedOneOf(PlanWords)
              /\ ~ContainsAny(Lower(query), DeviceWords)
              => response.action_taken = "list_plans")

\* a mixed-case query holding a plan keyword and a device keyword was routed
C1_Witness ==
    /\ Routed
    /\ TypedOneOf(DeviceWords) /\ TypedOneOf(PlanWords)
    /\ query # Lower(query)
    /\ response.action_taken = "list_devices"

----------------------------------------------------------------------------
(* Properties of validate_plan_safety.                                     *)

Validated == safe # <<>>

LimitsApply(p) ==
    /\ Has(p, "motor") /\ p["motor"] \in DOMAIN Limits
    /\ Has(p, "start") /\ Has(p, "stop")

OutOfRange(p, k) ==
    \/ p[k] < Limits[p["motor"]][1]
    \/ p[k] > Limits[p["motor"]][2]

\* C2: a plan on a motor of the limits table with start and stop is rejected
\* whenever start or stop lies outside the motor's [min, max] range.
C2_RejectsOutOfRange ==
    Validated /\ LimitsApply(plan)
              /\ (OutOfRange(plan, "start") \/ OutOfRange(plan, "stop"))
        => safe = <<FALSE>>

\* C3: a plan with num * 2 > 3600 is rejected whatever the motor-limit check
\* finds, and a plan with num * 2 <= 3600 whose start and stop are within
\* the motor limits is accepted.
C3_DurationCheck ==
    Validated /\ Has(plan, "num") =>
        /\ (plan["num"] * 2 > 3600 => safe = <<FALSE>>)
        /\ (plan["num"] * 2 <= 3600
              /\ (LimitsApply(plan) =>
                    ~OutOfRange(plan, "start") /\ ~OutOfRange(plan, "stop"))
              => safe = <<TRUE>>)

\* a plan within the limits of motor_x was rejected for its duration alone
C3_Witness ==
    /\ Validated /\ LimitsApply(plan) /\ Has(plan, "num")
    /\ ~OutOfRange(plan, "start") /\ ~OutOfRange(plan, "stop")
    /\ plan["num"] = 1801
    /\ safe = <<FALSE>>

----------------------------------------------------------------------------
(* Properties of PlanExplainer.explain.                                    *)

Explained == ex_stage = "done"

\* the reply the generative path obtained: the chat reply, or the text reply
\* when the chat call raised
InferenceReply == IF ex_chat.raised THEN ex_text ELSE ex_chat

\* the generative path returned the inference reply verbatim
ReplyReturned ==
    /\ llm_provider \in LocalProviders
    /\ ~InferenceReply.raised
    /\ TextLen(InferenceReply.val) > 50

\* C4: explain never raises and never returns an empty string, whatever the
\* plan source (malformed included), the context and the path; a failure
\* that reaches explain itself (rendering the template against a context
\* that is no mapping) yields the fixed failure string.
C4_ExplainTotal ==
    Explained =>
        /\ ~ex_result.raised
        /\ TextLen(ex_result.val) > 0
        /\ (ex_context = ScalarContext /\ ~ReplyReturned
              => ex_result.val = <<"Unable to generate explanation for this plan.">>)

\* a malformed source was explained on the generative path while both
\* inference calls raised
C4_Witness ==
    /\ Explained
    /\ ~SyntaxOk(ex_source)
    /\ llm_provider \in LocalProviders
    /\ ex_chat.raised /\ ex_text.raised
    /\ ~ex_result.raised /\ TextLen(ex_result.val) > 0

\* the explanation was rendered from a template
TemplatePath ==
    /\ Explained
    /\ ~ReplyReturned
    /\ ex_result.val # <<"Unable to generate explanation for this plan.">>

\* the template a rendered explanation comes from, by its fixed first step
RenderedTemplate(text) ==
    CASE In("1. The motor moves from a starting position to an ending position\n", text) -> "scan"
      [] In("1. All motors remain at their current positions\n", text) -> "count"
      [] In("1. The motor moves to each position in a predefined list\n", text) -> "list"
      [] OTHER -> "generic"

\* C5: the template is chosen by case-insensitive substring test on the plan
\* name with priority scan > count > list > generic.
C5_TemplatePriority ==
    TemplatePath =>
        LET name == ParsePlanSource(ex_source).name
            n == Lower(name)
            used == RenderedTemplate(ex_result.val)
        IN /\ (Contains(n, kw_scan) => used = "scan")
           /\ (~Contains(n, kw_scan) /\ Contains(n, id_count) => used = "count")
           /\ (~Contains(n, kw_scan) /\ ~Contains(n, id_count) /\ Contains(n, id_list)
                 => used = "list")
           /\ (~Contains(n, kw_scan) /\ ~Contains(n, id_count) /\ ~Contains(n, id_list)
                 => used = "generic")
           /\ (name \in {id_list_scan, id_CountScan} => used = "scan")
           /\ (name = id_countlist => used = "count")
           /\ (name = id_ListGrid => used = "list")
           /\ (name \in {id_my_plan, id_unknown} => used = "generic")

\* a plan named Count_SCAN was explained with the scan template
C5_Witness ==
    /\ TemplatePath
    /\ ParsePlanSource(ex_source).name = id_CountScan
    /\ RenderedTemplate(ex_result.val) = "scan"

----------------------------------------------------------------------------
(* Properties of the Scheduler Gateway.  While a result is held the        *)
(* scheduler's variables still show what the call met.                     *)

Called(op) == qs_call[1] = op

\* the operation's own request met a transport exception or a non-200 status
StatusRequestFailed == srv_status # "ok"
ApiRequestFailed == srv_api \in {"error", "timeout"}

ConvertingOperations ==
    {"connect", "get_devices", "get_plans", "get_plan_source", "get_queue_status",
     "clear_queue", "remove_queue_item", "pause_run_engine", "resume_run_engine",
     "get_environment_status"}

GatewayOperations == ConvertingOperations \cup {"submit_plan"}

\* the empty / false / None / default-status value the operation answers with
IsFailureValue ==
    CASE Called("connect") -> qs_result[2].val = None
      [] Called("get_devices") \/ Called("get_plans") -> qs_result[2].val = <<>>
      [] Called("get_plan_source") -> ~qs_result[2].val.some
      [] Called("get_queue_status") -> qs_result[2].val = DefaultQueue
      [] Called("get_environment_status") -> qs_result[2].val \in {UnknownStatus, ErrorStatus}
      [] OTHER -> qs_result[2].val = FALSE

\* the request of the operation called failed; a plan without a name is
\* turned down before any request is made
RequestFailed ==
    CASE Called("connect") \/ Called("get_environment_status") -> StatusRequestFailed
      [] Called("submit_plan") -> Has(qs_call[2], "name") /\ ApiRequestFailed
      [] OTHER -> ApiRequestFailed

WellFormedRegistry ==
    \A i \in 1..Len(srv_allowed) : srv_allowed[i].info.is_mapping

\* C7: get_devices and get_plans never raise; a transport exception or a
\* non-200 status yields the empty list; a 200 response yields one record
\* per key of the mapping, in the mapping's iteration order.
C7_ListingTotalAndOrdered ==
    (Called("get_devices") \/ Called("get_plans")) =>
        /\ ~qs_result[2].raised
        /\ ApiRequestFailed => qs_result[2].val = <<>>
        /\ (srv_api = "ok" /\ WellFormedRegistry) =>
              /\ Len(qs_result[2].val) = Len(srv_allowed)
              /\ \A i \in 1..Len(srv_allowed) :
                    qs_result[2].val[i].name = srv_allowed[i].name

C7_Witness ==
    /\ Called("get_devices")
    /\ srv_api = "ok"
    /\ WellFormedRegistry
    /\ Len(srv_allowed) = MaxItems
    /\ Len(qs_result[2].val) = MaxItems
    /\ qs_result[2].val[1].name # qs_result[2].val[2].name

\* C8, as stated: is_connected() is true exactly when the most recent
\* connect() got a 200 from the status endpoint and no disconnect() has
\* happened since.
C8_ConnectedIffLastConnectOk ==
    IsConnected(ThisClient) <=> (qs_lastConnect = "ok" /\ ~qs_sawDisconnect)

----------------------------------------------------------------------------
(* Properties of the Local Inference Client.  While a result is held the   *)
(* inference server's variables still show what the call met.              *)

\* generate or chat was called on one of the two backend clients
BackendCompletion ==
    /\ llm_call[1] \in {"generate", "chat"}
    /\ svc_client \in LocalProviders

ErrorString ==
    CASE svc_client = "lmstudio" /\ llm_call[1] = "generate" -> LMStudioGenerateError
      [] svc_client = "lmstudio" -> LMStudioChatError
      [] llm_call[1] = "generate" -> OllamaGenerateError
      [] OTHER -> OllamaChatError

\* the POST met a transport exception or a non-200 status
PostFailed == inf_post \in {"error", "timeout"}

\* the POST got a 200 whose body carries a top-choice text
PostSucceeded == inf_post = "ok" /\ inf_reply.shape = "full"

\* r is t without its leading and trailing whitespace
IsStripped(t, r) ==
    /\ r # <<>> => (r[1] \notin Whitespace /\ r[Len(r)] \notin Whitespace)
    /\ \E i \in 1..(Len(t) + 1) :
          /\ \A k \in 1..(i - 1) : t[k] \in Whitespace
          /\ i + Len(r) - 1 <= Len(t)
          /\ \A k \in 1..Len(r) : t[i + k - 1] = r[k]
          /\ \A k \in (i + Len(r))..Len(t) : t[k] \in Whitespace

\* C9, as stated: generate and chat of both backends never raise; on a
\* non-200 status, a transport exception and a failed implicit connect()
\* they return the backend's fixed error string, and on a 200 response the
\* top-choice text stripped of surrounding whitespace.
C9_ErrorStringOnFailedConnect ==
    BackendCompletion =>
        /\ ~llm_result[2].raised
        /\ (PostFailed \/ llm_connect = "false") => llm_result[2].val = ErrorString
        /\ PostSucceeded => IsStripped(inf_reply.text, llm_result[2].val)

\* C9, amended: generate and chat of both backends never raise; the outcome
\* of the POST alone decides the result, whatever the implicit connect()
\* returned: the fixed error string on a non-200 status or an exception,
\* the stripped top-choice text on a 200 response that carries one.
C9_PostDecidesResult ==
    BackendCompletion =>
        /\ ~llm_result[2].raised
        /\ PostFailed => llm_result[2].val = ErrorString
        /\ PostSucceeded => IsStripped(inf_reply.text, llm_result[2].val)

C9_Witness ==
    /\ BackendCompletion
    /\ llm_connect = "false"
    /\ PostSucceeded
    /\ Len(inf_reply.text) = MaxSegments
    /\ inf_reply.text[1] \in Whitespace
    /\ inf_reply.text[MaxSegments] \in Whitespace
    /\ Len(llm_result[2].val) = MaxSegments - 2

\* the client's generate call failed with a timeout: it raised one, or its
\* POST timed out
GenerateTimedOut ==
    \/ svc_client = "other" /\ llm_call[2] = Raised("TimeoutError")
    \/ svc_client \in LocalProviders /\ inf_post = "timeout"

\* C10, as stated: when the client's generate call fails with a timeout,
\* generate_text returns a fixed error string and does not raise.
C10_TimeoutIsNormalFailure ==
    (llm_call[1] = "generate_text" /\ GenerateTimedOut) =>
        /\ ~llm_result[2].raised
        /\ llm_result[2].val \in {NotInitialized, LMStudioGenerateError, OllamaGenerateError}

----------------------------------------------------------------------------
(* Properties of process_query.                                            *)

\* process_query has returned or raised
Processed == ag_result[1] = "process_query"

\* the confidence values an AgentResponse is built with, in hundredths
FixedConfidences == {0, 50, 60, 75, 80, 85, 90, 95}

\* C11: every response process_query returns, on whichever path, carries one
\* of the fixed confidence values (so one within [0,1]) and an action_taken
\* that is null or one of the six tool names; process_query never raises
C11_ResponseWellFormed ==
    Processed =>
        /\ ~ag_result[2].raised
        /\ ag_result[2].val.confidence \in FixedConfidences
        /\ ag_result[2].val.confidence >= 0
        /\ ag_result[2].val.confidence <= 100
        /\ ag_result[2].val.action_taken \in ToolNames \cup {None}

\* the inference call raised under a local provider and the keyword router
\* answered in its place with the plan it generated
C11_Witness ==
    /\ Processed
    /\ llm_provider \in LocalProviders
    /\ ag_chat.raised
    /\ ag_result[2].val.action_taken = "generate_plan"
    /\ ag_result[2].val.confidence = 75

----------------------------------------------------------------------------
(* Properties of the HTTP application.                                     *)

\* the application has answered a request to the endpoint
Answered(endpoint) == ep_response[1] = endpoint

\* the body of the /explain request was the empty object
EmptyExplainBody ==
    /\ ep_call[2].plan_name = Missing
    /\ ep_call[2].plan_source = Missing

\* C12: a POST /explain whose body supplies neither plan_name nor plan_source
\* is rejected by the request model's validator with status 422
C12_MissingInputIs422 ==
    (Answered("/explain") /\ EmptyExplainBody) => ep_response[2] = 422

\* C13: GET /last_scan answers 200 or 404 and never another status (the
\* record the history store returns passing the ScanMetadata response model)
C13_LastScanIs200Or404 ==
    Answered("/last_scan") => ep_response[2] \in {200, 404}

\* C14: GET /devices and GET /plans answer 200 with a list for every
\* scheduler outcome, non-empty registries included
C14_ListingsAnswer200 ==
    (Answered("/devices") \/ Answered("/plans")) => ep_response[2] = 200

----------------------------------------------------------------------------
(* Properties of the parameter path.                                       *)

\* the places where a piece of text occurs in a text
Occurrences(t, piece) ==
    IF piece = <<>> THEN {}
    ELSE { i \in 1..(Len(t) - Len(piece) + 1) : SubSeq(t, i, i + Len(piece) - 1) = piece }

\* where it first occurs, 0 when it does not
FirstAt(t, piece) ==
    LET at == Occurrences(t, piece)
    IN IF at = {} THEN 0 ELSE CHOOSE i \in at : \A j \in at : i <= j

\* the parameters the scheduler delivered for a plan name
DeliveredFor(plan_name) ==
    LET found == SelectSeq(sch_plans, LAMBDA d : d.name = plan_name)
    IN Get(Head(found).info.fields, "parameters", <<>>)

\* the line by which a template's parameter section mentions a parameter
ParamLine(kind, param) ==
    CASE kind = "scan" -> ScanParamDescription(param)
      [] kind = "count" ->
           (CASE param = id_detectors -> <<"- Detectors: Which instruments to read from\n">>
              [] param = id_num -> <<"- Number of counts: How many readings to take\n">>
              [] param \in {id_delay, id_time} ->
                   <<"- Time/Delay: Duration of each measurement or time between measurements\n">>
              [] OTHER -> <<>>)
      [] kind = "list" ->
           (CASE param = id_detectors -> <<"- Detectors: Instruments for data collection\n">>
              [] param = kw_motor -> <<"- Motor: The device to move\n">>
              [] OTHER -> <<>>)
      [] OTHER -> <<"- ">> \o param \o <<"\n">>

\* the parameter's line in the docstring get_plan_source writes
DocLine(param) == <<"    - ">> \o param \o <<"\n">>

\* pieces of a text stand in the order of the parameters they belong to
InOrder(t, params, pieces) ==
    \A i, j \in 1..Len(params) :
        (i < j /\ FirstAt(t, pieces[i]) > 0 /\ FirstAt(t, pieces[j]) > 0)
            => FirstAt(t, pieces[i]) < FirstAt(t, pieces[j])

ExplainedByName == pl_out[1] = "explain" /\ ~pl_out[2].answer.raised

\* the source and the parsed plan carry the delivered parameters in order
SourceKeepsOrder ==
    ExplainedByName =>
        LET params == DeliveredFor(pl_out[2].plan_name)
            parsed == pl_out[2].info.val
        IN /\ AstParse(pl_out[2].source.val).val.args = params
           /\ parsed.parameters = params
           /\ InOrder(parsed.docstring, params,
                      [i \in 1..Len(params) |-> DocLine(params[i])])

\* the parameter lines of the explanation, for the templates in kinds
LinesKeepOrder(kinds) ==
    ExplainedByName =>
        LET params == DeliveredFor(pl_out[2].plan_name)
            kind == TemplateFor(pl_out[2].plan_name)
        IN kind \in kinds =>
               InOrder(pl_out[2].answer.val.explanation, params,
                       [i \in 1..Len(params) |-> ParamLine(kind, params[i])])

\* the example usage names one value per parameter, in the delivered order
ExampleKeepsOrder ==
    pl_out[1] = "plans_detailed" =>
        \A k \in 1..Len(pl_out[2].plans) :
            LET detail == pl_out[2].plans[k]
                params == DeliveredFor(detail.name)
            IN InOrder(detail.example_usage, params,
                       [i \in 1..Len(params) |->
                           ParamExample(detail.parameters[i], pl_out[2].available).val])

\* C16 as stated: the order of a plan's parameters as delivered by the
\* scheduler is preserved through get_plan_source, source parsing, every
\* explanation template (scan, count, list, generic) and the example usage:
\* two parameters that both appear in an output stand in their delivered order
C16_OrderPreservedEverywhere ==
    /\ SourceKeepsOrder
    /\ LinesKeepOrder({"scan", "count", "list", "generic"})
    /\ ExampleKeepsOrder

\* the count template writes its lines in the fixed order detectors, num,
\* time/delay, the list template in the fixed order detectors, motor
FixedLineOrder ==
    ExplainedByName =>
        LET t == pl_out[2].answer.val.explanation
            kind == TemplateFor(pl_out[2].plan_name)
        IN /\ kind = "count" =>
                 InOrder(t, <<id_detectors, id_num, id_delay>>,
                         <<ParamLine(kind, id_detectors), ParamLine(kind, id_num),
                           ParamLine(kind, id_delay)>>)
           /\ kind = "list" =>
                 InOrder(t, <<id_detectors, kw_motor>>,
                         <<ParamLine(kind, id_detectors), ParamLine(kind, kw_motor)>>)

\* C16 (amended): the delivered order of a plan's parameters is preserved
\* through get_plan_source (signature and docstring), source parsing, the scan
\* and generic templates and the example usage; the count and list templates
\* write their parameter lines in a fixed order of their own
C16_OrderPreservedExceptFixedTemplates ==
    /\ SourceKeepsOrder
    /\ LinesKeepOrder({"scan", "generic"})
    /\ ExampleKeepsOrder
    /\ FixedLineOrder

\* a scan plan delivered as (num, detectors) was explained, both lines present
C16_Witness ==
    /\ ExplainedByName
    /\ TemplateFor(pl_out[2].plan_name) = "scan"
    /\ DeliveredFor(pl_out[2].plan_name) = <<id_num, id_detectors>>
    /\ FirstAt(pl_out[2].answer.val.explanation, ParamLine("scan", id_num)) > 0
    /\ FirstAt(pl_out[2].answer.val.explanation, ParamLine("scan", id_detectors)) > 0

\* POST /explain {plan_name: 'count'} was answered from a descriptor with the
\* parameters (detectors, num, delay) and no description
CountWithoutDocstring ==
    /\ ExplainedByName
    /\ pl_out[2].plan_name = id_count
    /\ sch_plans = <<Descriptor(id_count, <<id_detectors, id_num, id_delay>>, FALSE)>>

DefaultCountSentence == <<"This plan takes repeated measurements at a fixed position.\n\n">>

\* each of detectors, num and delay has exactly one parameter line
ThreeCountLines(t) ==
    \A param \in {id_detectors, id_num, id_delay} :
        Cardinality(Occurrences(t, ParamLine("count", param))) = 1

\* C17 as stated: that request yields an explanation with the sentence
\* 'This plan takes repeated measurements ...' and one parameter line for each
\* of the three parameters
C17_DefaultSentenceAndThreeLines ==
    CountWithoutDocstring =>
        /\ FirstAt(pl_out[2].answer.val.explanation, DefaultCountSentence) > 0
        /\ ThreeCountLines(pl_out[2].answer.val.explanation)

\* C17 (amended): that request yields an explanation that opens with the
\* docstring get_plan_source wrote into the source (an empty description and
\* the parameter list), not with the template's default sentence, and that
\* has one parameter line for each of the three parameters
C17_TemplateDocstringAndThreeLines ==
    CountWithoutDocstring =>
        LET t == pl_out[2].answer.val.explanation IN
        /\ FirstAt(t, DefaultCountSentence) = 0
        /\ FirstAt(t, <<"\n\nParameters:\n">> \o DocLine(id_detectors)
                          \o DocLine(id_num) \o DocLine(id_delay)) > 0
        /\ ThreeCountLines(t)

\* the request of C17 was answered with an explanation
C17_Witness ==
    /\ CountWithoutDocstring
    /\ pl_out[2].answer.val.plan_name = Str(id_count)

----------------------------------------------------------------------------
(* Properties of the instrument server's device listing.                   *)

\* the scheduler answered with motor_x then pilatus, neither carrying class
\* information, and the devices were fetched
FetchedMotorThenPilatus ==
    /\ mcp_out[1] \in {"devices", "available_devices"}
    /\ mcp_out[2].mode = "ok"
    /\ sch_devices = <<[name |-> id_motor_x, info |-> Mapping(<<>>)],
                       [name |-> id_pilatus, info |-> Mapping(<<>>)]>>

\* the device names of an answer, category after category
NamesOf(devices) ==
    IF mcp_out[1] = "devices"
    THEN LET all == devices.motors \o devices.detectors \o devices.other
         IN [i \in 1..Len(all) |-> all[i].name]
    ELSE devices.motors \o devices.detectors \o devices.shutters \o devices.other

NamesIn(category) ==
    IF mcp_out[1] = "devices"
    THEN {category[i].name : i \in 1..Len(category)}
    ELSE {category[i] : i \in 1..Len(category)}

\* C18: devices fetched from a scheduler response that lists motor_x then
\* pilatus come out in that order, and the name heuristic alone puts motor_x
\* into the motors category and pilatus into the detectors category
C18_NameHeuristicClassifies ==
    FetchedMotorThenPilatus =>
        /\ NamesOf(mcp_out[2].devices) = <<id_motor_x, id_pilatus>>
        /\ id_motor_x \in NamesIn(mcp_out[2].devices.motors)
        /\ id_pilatus \in NamesIn(mcp_out[2].devices.detectors)

----------------------------------------------------------------------------
(* Properties of the knowledge base.                                       *)

\* some result's content contains the text
FoundIn(results, text) ==
    \E r \in 1..Len(results) : Contains(results[r].content, text)

\* C19: after add_document(content, metadata) returned true on an
\* initialised engine, a search whose query is a substring of that content
\* returns at least one result whose content contains the query
C19_AddedDocumentIsFound ==
    (rag_result[1] = "search" /\ rag_initialized /\ rag_store.some) =>
        \A k \in 1..Len(rag_store.val) :
            Contains(rag_store.val[k].content, rag_call[2].text)
                => FoundIn(rag_result[2].val, rag_call[2].text)

\* every result's content mentions one of the words, whatever the case
AllMention(results, words) ==
    \A r \in 1..Len(results) : ContainsAny(Lower(results[r].content), words)

\* C20: type-restricted searches return only results of the requested kind
\* for every query: each result of search_devices mentions 'motor' or
\* 'device', each result of search_plans mentions 'scan' or 'plan'
C20_TypedSearchesReturnTheirKind ==
    /\ rag_result[1] = "search_devices"
           => AllMention(rag_result[2].val, {kw_motor, kw_device})
    /\ rag_result[1] = "search_plans"
           => AllMention(rag_result[2].val, {kw_scan, kw_plan})

----------------------------------------------------------------------------
(* Properties of the scan search.                                          *)

Searched == db_result[1] = "search_scans"

\* a record passes the filters that were supplied (a filter left out, or
\* given as the empty string, excludes nothing)
PassesFilters(s, filters) ==
    /\ Given(filters.plan_name) => s.plan_name = filters.plan_name.val
    /\ Given(filters.sample) => Contains(s.sample, filters.sample.val)

\* C21: search_scans returns exactly the records of get_recent_scans that
\* satisfy all supplied filters together, most recent first, at most limit of
\* them; a filter that is not supplied excludes nothing
C21_SearchIsFilteredRecentScans ==
    Searched =>
        LET filters == db_call[2]
            found == db_result[2].val
            recent == GetRecentScans(TRUE, filters.limit).result.val
        IN /\ \A i \in 1..Len(found) :
                  /\ \E k \in 1..Len(recent) : recent[k] = found[i]
                  /\ PassesFilters(found[i], filters)
           /\ \A k \in 1..Len(recent) :
                  PassesFilters(recent[k], filters)
                      => \E i \in 1..Len(found) : found[i] = recent[k]
           /\ \A i, j \in 1..Len(found) : i < j => found[i].age < found[j].age
           /\ Len(found) <= filters.limit

\* a search with both filters supplied kept some records and dropped others
C21_Witness ==
    /\ Searched
    /\ Given(db_call[2].plan_name)
    /\ Given(db_call[2].sample)
    /\ db_result[2].val # <<>>
    /\ Len(db_result[2].val) < db_call[2].limit
    /\ \E k \in 1..db_call[2].limit :
           /\ RecentScan(k - 1).plan_name = db_call[2].plan_name.val
           /\ ~Contains(RecentScan(k - 1).sample, db_call[2].sample.val)

----------------------------------------------------------------------------
(* Properties of the instrument server's POST /explain.                    *)

\* C22: POST /explain of the instrument server answers 200 with a non-empty
\* explanation for every plan_name - a known plan in any letter case, an
\* unknown plan, a free-text question - whether or not LMStudio and the
\* scheduler are reachable, and whatever plan names the scheduler reports
C22_ExplainAlwaysAnswers ==
    mcp_out[1] = "/explain" =>
        /\ mcp_out[2].answer[2] = 200
        /\ TextLen(mcp_out[2].answer[3].explanation) > 0

----------------------------------------------------------------------------
(* Properties of a client used by concurrent tasks.                        *)

\* C23: for every interleaving of concurrent requests on one QServerClient,
\* two requests that both find it disconnected included, the client keeps
\* a single session: no request raises, at most one session is open at any
\* time, and no session is open once disconnect() has returned
C23_SingleSessionUnderRaces ==
    cc_kind = "QServerClient" =>
        /\ Cardinality(OpenSessions(cc_sessions)) <= 1
        /\ \A t \in Tasks :
              /\ cc_tasks[t].op = "request" => cc_tasks[t].result # "raised"
              /\ (cc_tasks[t].op = "disconnect" /\ cc_tasks[t].pc = "done")
                     => OpenSessions(cc_sessions) = {}

\* C29: in every state reachable by interleaving connect(), disconnect() and
\* requests of a client, is_connected() being true implies that the client
\* holds a session that has not been closed
C29_ConnectedImpliesOpenSession ==
    ClientIsConnected(cc_connected) =>
        /\ cc_session # 0
        /\ cc_sessions[cc_session] = "open"

----------------------------------------------------------------------------
(* Properties of the local-inference path of process_query.                *)

\* process_query returned on the local-inference path with a reply received
LocalReplied ==
    /\ Processed
    /\ llm_provider \in LocalProviders
    /\ ~ag_chat.raised

\* the tool result is appended beneath the reply, or the reply stands alone
ToolResultBeneathReply ==
    LET out == ag_result[2].val IN
    IF out.action_taken = None
    THEN out.response = ag_chat.val
    ELSE out.response =
             ag_chat.val \o <<"\n\n">> \o ExecuteToolAction(out.action_taken, ag_query)

\* C24 as stated: on the local-inference path the action is the one the
\* keyword router selects for a query with the reply's text, and the tool
\* result is appended beneath the reply
C24_ReplyRoutedLikeQuery ==
    LocalReplied =>
        /\ ag_result[2].val.action_taken = SimulateAgentResponse(ag_chat.val).action_taken
        /\ ToolResultBeneathReply

\* C24: on the local-inference path the action is the one the reply
\* parser's own keyword groups select in the reply text, whatever the query
\* was, and the tool result is appended beneath the reply
C24_ReplyAloneSelectsTool ==
    LocalReplied =>
        /\ ag_result[2].val.action_taken = ParseActionFromResponse(ag_chat.val)
        /\ ToolResultBeneathReply

\* a reply naming the queue answers a query about motors with manage_queue,
\* where the keyword router answers that query with list_devices
C24_Witness ==
    /\ LocalReplied
    /\ ag_result[2].val.action_taken = "manage_queue"
    /\ SimulateAgentResponse(ag_query).action_taken = "list_devices"
    /\ Len(ag_result[2].val.response) > Len(ag_chat.val)

----------------------------------------------------------------------------
(* Properties of the generative explanation path.                          *)

\* explain has returned on the generative path with a reply of the service
GenerativeDone ==
    /\ ex_stage = "done"
    /\ llm_provider \in LocalProviders
    /\ ex_chat # NotCalled
    /\ ~ex_chat.raised

\* the template explanation for the same plan facts and context
TemplateAnswer == GenerateTemplateExplanation(ParsePlanSource(ex_source), ex_context)

\* explain returned the template explanation (where the template has one)
TemplateReturned == ~TemplateAnswer.raised => ex_result = TemplateAnswer

\* C25 as stated: a reply of 50 or more characters is returned verbatim, a
\* shorter, empty or missing one is replaced by the template explanation
C25_FiftyOrMoreVerbatim ==
    GenerativeDone =>
        IF TextLen(ex_chat.val) >= 50
        THEN ex_result = Ok(ex_chat.val)
        ELSE TemplateReturned

\* C25: a reply of more than 50 characters is returned verbatim, a reply of
\* 50 characters or fewer is replaced by the template explanation
C25_MoreThanFiftyVerbatim ==
    GenerativeDone =>
        IF TextLen(ex_chat.val) > 50
        THEN ex_result = Ok(ex_chat.val)
        ELSE TemplateReturned

\* a reply of exactly 50 characters was replaced by the template
C25_Witness ==
    /\ GenerativeDone
    /\ TextLen(ex_chat.val) = 50
    /\ ~TemplateAnswer.raised
    /\ ex_result = TemplateAnswer
    /\ ex_result # Ok(ex_chat.val)

\* C30: none of the fixed failure texts of the inference layer is returned
\* by explain on the generative path: each is shorter than the threshold,
\* and explain returns the template explanation when the service answers
\* with one of them
C30_FailureTextsNeverReturned ==
    /\ \A t \in InferenceFailureTexts : TextLen(t) < PoorLength
    /\ GenerativeDone =>
           /\ ex_result.val \notin InferenceFailureTexts
           /\ ex_chat.val \in InferenceFailureTexts => TemplateReturned

\* the backend failed, the service answered with LMStudio's chat failure
\* text, and explain returned the template for the plan
C30_Witness ==
    /\ GenerativeDone
    /\ ex_chat.val = LMStudioChatError
    /\ ~TemplateAnswer.raised
    /\ ex_result = TemplateAnswer

----------------------------------------------------------------------------
(* Properties of _parse_plan_source on sources that do not parse.          *)

\* explain has parsed a source that ast.parse rejects
ParsedUnparsable ==
    /\ ex_stage = "done"
    /\ AstParse(ex_source).raised

\* the source text holds a call that one of the movement patterns matches
HoldsMovementCall == Movements(MovementPatterns, AllCalls(ex_source)) # <<>>

\* C26: for every source that fails to parse, _parse_plan_source returns
\* facts with name 'unknown' and every other field empty, the movements
\* too, whatever call patterns the text contains; explain does not raise
C26_UnparsableGivesDefaults ==
    ParsedUnparsable =>
        LET info == ParsePlanSource(ex_source) IN
        /\ info.name = id_unknown
        /\ info.parameters = <<>>
        /\ info.docstring = <<>>
        /\ info.yields = <<>>
        /\ info.devices = <<>>
        /\ info.movements = <<>>
        /\ ~ex_result.raised

\* a source with a bps.mv(...) call that lost its colon was parsed
C26_Witness ==
    /\ ParsedUnparsable
    /\ HoldsMovementCall
    /\ ParsePlanSource(ex_source).movements = <<>>

----------------------------------------------------------------------------
(* Branches of the keyword router that no query reaches.                   *)

\* the routed query holds both 'last' and 'scan'
AsksLastScan ==
    /\ Contains(Lower(query), kw_last)
    /\ Contains(Lower(query), kw_scan)

\* C28: the keyword router never answers with get_last_scan or confidence
\* 0.95: a query holding both 'last' and 'scan' is answered with list_plans
\* or list_devices; and a query holding 'scan from' never yields
\* generate_plan
C28_LastScanBranchUnreachable ==
    Routed =>
        /\ response.action_taken # "get_last_scan"
        /\ response.confidence # 95
        /\ AsksLastScan => response.action_taken \in {"list_plans", "list_devices"}
        /\ Contains(Lower(query), kw_scan_from) => response.action_taken # "generate_plan"

\* a query holding 'last' and 'scan' and no device word was answered with
\* list_plans
C28_Witness ==
    /\ Routed
    /\ AsksLastScan
    /\ response.action_taken = "list_plans"
    /\ response.confidence = 90

----------------------------------------------------------------------------
(* Properties of the steps of process_query.                               *)

\* the tool named by the response the call returns, as a list
ToolOfResponse ==
    IF ag_result[2].val.action_taken = None THEN <<>>
    ELSE <<ag_result[2].val.action_taken>>

\* a step that executes a tool
ExecutesTool == pq_tools' # pq_tools /\ pq_tools' # <<>>

\* C27: each call of process_query executes at most one tool action: the
\* keyword path runs exactly the tool of the first matching branch, the
\* local-inference path runs a tool only after the reply was received and
\* classified, and when the inference call raises the keyword fallback
\* starts with no tool executed before it
C27_AtMostOneToolPerCall ==
    /\ [](Len(pq_tools) <= 1)
    /\ [](pq_pc = "done" => pq_tools = ToolOfResponse)
    /\ [][ExecutesTool =>
             /\ pq_tools = <<>>
             /\ \/ pq_pc = "route"
                \/ /\ pq_pc = "tool"
                   /\ ag_chat # NotCalled /\ ~ag_chat.raised
                   /\ pq_tools' = <<ParseActionFromResponse(ag_chat.val)>>]_vars
    /\ [][(pq_pc = "chat" /\ pq_pc' = "route") =>
             (ag_chat'.raised /\ pq_tools = <<>>)]_vars

\* the inference call raised and the keyword fallback ran its one tool
C27_Witness ==
    /\ pq_pc = "done"
    /\ llm_provider \in LocalProviders
    /\ ag_chat.raised
    /\ pq_tools = <<"generate_plan">>
    /\ ag_result[2].val.action_taken = "generate_plan"

====
